---- MODULE Spec2Model ----
(***************************************************************************)
(* Filter / pagination state machine of the apartment listing page:        *)
(* the apartment list store (stores/apartmentStore), the filter store      *)
(* (stores/filterStore), the filter persistence (useFilterPersistence),    *)
(* the filter panel component and the listing endpoint.                    *)
(*                                                                         *)
(* Representation.  An apartment in a list is its id (1..NumApartments);   *)
(* its attributes are looked up in the dataset.  Areas are held in tenths  *)
(* of a square metre (25.5 is 255) so that every number is an integer.     *)
(* A JavaScript string is a sequence of one-character strings.             *)
(***************************************************************************)
EXTENDS Integers, Sequences, FiniteSets, Bags, TLC

\* null in a string-valued field (the stores' error)
NULL == "null"
\* null / undefined in an object-valued field or argument
NullObject == [null |-> TRUE]
Undefined == [undefined |-> TRUE]
\* NaN: an integer no computation of the model produces; see JsLess
NaN == -2000000000

(***************************************************************************)
(* Bounds of the model.                                                    *)
(***************************************************************************)
MaxInFlight == 2
MaxPage == 3
MaxApplyInFlight == 1
MaxCachePending == 1
MaxTicks == 3
MaxTimers == 2

(***************************************************************************)
(* Dataset served by the listing endpoint (server/data/apartments.json).   *)
(***************************************************************************)
NumApartments == 25

DatasetMetadata ==
  [priceRange |-> <<0, 100000000>>,
   areaRange |-> <<10, 10000>>,
   roomsAvailable |-> <<1, 2, 3, 4>>,
   floorsRange |-> <<1, 50>>]

Apartment(i) ==
  [id |-> i,
   price |-> 3200000 + (i - 1) * 900000,
   area |-> 255 + (i - 1) * 50,
   rooms |-> ((i - 1) % 4) + 1,
   floor |-> ((i - 1) % 20) + 1]

DataApartments == [i \in 1..NumApartments |-> i]

(***************************************************************************)
(* Number <-> string conversions.                                          *)
(***************************************************************************)
DigitChars == <<"0", "1", "2", "3", "4", "5", "6", "7", "8", "9">>

IsDigit(c) == \E d \in 1..10 : DigitChars[d] = c

DigitValue(c) == (CHOOSE d \in 1..10 : DigitChars[d] = c) - 1

RECURSIVE NatToString(_)
NatToString(n) ==
  IF n < 10 THEN <<DigitChars[n + 1]>>
  ELSE NatToString(n \div 10) \o <<DigitChars[(n % 10) + 1]>>

\* Number.prototype.toString() of an integer
NumberToString(n) ==
  IF n < 0 THEN <<"-">> \o NatToString(0 - n) ELSE NatToString(n)

\* Number.prototype.toString() of an area held in tenths: 255 -> "25.5", 1500 -> "150"
AreaToString(t) ==
  IF t % 10 = 0 THEN NumberToString(t \div 10)
  ELSE NatToString(t \div 10) \o <<".">> \o NatToString(t % 10)

\* length of the longest prefix of s made of digits
RECURSIVE DigitPrefixLen(_)
DigitPrefixLen(s) ==
  IF s = <<>> \/ ~IsDigit(Head(s)) THEN 0 ELSE 1 + DigitPrefixLen(Tail(s))

RECURSIVE DigitsValue(_, _)
DigitsValue(s, acc) ==
  IF s = <<>> THEN acc ELSE DigitsValue(Tail(s), acc * 10 + DigitValue(Head(s)))

\* parseInt(s): optional sign, then the leading digits; NaN when there are none
parseInt(s) ==
  LET neg == s # <<>> /\ Head(s) = "-"
      body == IF neg THEN Tail(s) ELSE s
      n == DigitPrefixLen(body)
  IN IF n = 0 THEN NaN
     ELSE IF neg THEN 0 - DigitsValue(SubSeq(body, 1, n), 0)
          ELSE DigitsValue(SubSeq(body, 1, n), 0)

\* parseFloat(s) in tenths: integer part and the first fractional digit
parseFloat(s) ==
  LET n == DigitPrefixLen(s)
      rest == SubSeq(s, n + 1, Len(s))
      frac == IF Len(rest) >= 2 /\ rest[1] = "." /\ IsDigit(rest[2])
              THEN DigitValue(rest[2]) ELSE 0
  IN IF n = 0 THEN NaN ELSE DigitsValue(SubSeq(s, 1, n), 0) * 10 + frac

\* Array.prototype.join(',') over the strings of the numbers
RECURSIVE JoinComma(_)
JoinComma(nums) ==
  IF nums = <<>> THEN <<>>
  ELSE IF Len(nums) = 1 THEN NumberToString(nums[1])
  ELSE NumberToString(nums[1]) \o <<",">> \o JoinComma(Tail(nums))

\* String.prototype.split(',')
RECURSIVE SplitComma(_, _)
SplitComma(s, cur) ==
  IF s = <<>> THEN <<cur>>
  ELSE IF Head(s) = "," THEN <<cur>> \o SplitComma(Tail(s), <<>>)
  ELSE SplitComma(Tail(s), Append(cur, Head(s)))

(***************************************************************************)
(* Query parameters: URLSearchParams as a sequence of key/value pairs.     *)
(***************************************************************************)
Param(k, v) == [key |-> k, value |-> v]

HasParam(params, k) == \E i \in 1..Len(params) : params[i].key = k

\* value of the first pair with key k; the empty string when there is none
GetParam(params, k) ==
  IF HasParam(params, k)
  THEN params[CHOOSE i \in 1..Len(params) :
                params[i].key = k /\ \A j \in 1..(i - 1) : params[j].key # k].value
  ELSE <<>>

\* query.x || dflt: a missing and an empty value both give dflt
ParamOr(params, k, dflt) ==
  IF GetParam(params, k) = <<>> THEN dflt ELSE GetParam(params, k)

(***************************************************************************)
(* Listing endpoint: filter the dataset, then slice the requested page.    *)
(***************************************************************************)
\* a < b in JavaScript: false when either side is NaN
JsLess(a, b) == a # NaN /\ b # NaN /\ a < b

ServerFilters(query) ==
  [priceRange |-> <<parseInt(ParamOr(query, "priceMin", <<"0">>)),
                    parseInt(ParamOr(query, "priceMax", NumberToString(999999999)))>>,
   areaRange |-> <<parseFloat(ParamOr(query, "areaMin", <<"0">>)),
                   parseFloat(ParamOr(query, "areaMax", NumberToString(999999)))>>,
   rooms |-> IF GetParam(query, "rooms") = <<>>
             THEN <<>>
             ELSE LET parts == SplitComma(GetParam(query, "rooms"), <<>>)
                  IN [i \in 1..Len(parts) |-> parseInt(parts[i])],
   floors |-> <<parseInt(ParamOr(query, "floorMin", <<"1">>)),
                parseInt(ParamOr(query, "floorMax", NumberToString(999)))>>]

ServerMatches(a, f) ==
  /\ ~(JsLess(a.price, f.priceRange[1]) \/ JsLess(f.priceRange[2], a.price))
  /\ ~(JsLess(a.area, f.areaRange[1]) \/ JsLess(f.areaRange[2], a.area))
  /\ ~(Len(f.rooms) > 0 /\ ~(\E i \in 1..Len(f.rooms) : f.rooms[i] = a.rooms))
  /\ ~(JsLess(a.floor, f.floors[1]) \/ JsLess(f.floors[2], a.floor))

\* Array.prototype.slice(startIndex, endIndex), zero-based, end exclusive
Slice(s, startIndex, endIndex) ==
  LET lo == IF startIndex < 0 THEN 0 ELSE startIndex
      hi == IF endIndex > Len(s) THEN Len(s) ELSE endIndex
  IN IF lo >= hi THEN <<>> ELSE SubSeq(s, lo + 1, hi)

\* the handler's body once the query is parsed
ApartmentsPage(f, page, limit) ==
  LET MatchId(i) == ServerMatches(Apartment(i), f)
      filteredApartments == SelectSeq(DataApartments, MatchId)
      total == Len(filteredApartments)
      startIndex == (page - 1) * limit
      endIndex == startIndex + limit
  IN [apartments |-> Slice(filteredApartments, startIndex, endIndex),
      meta |-> [total |-> total, filters |-> DatasetMetadata]]

ApartmentsApi(query) ==
  ApartmentsPage(ServerFilters(query),
                 parseInt(ParamOr(query, "page", <<"1">>)),
                 parseInt(ParamOr(query, "limit", <<"2", "0">>)))

(***************************************************************************)
(* State.                                                                  *)
(***************************************************************************)
VARIABLES
  apartments,     \* apartment store: loaded list (ids, in display order)
  loading,        \* apartment store: loading flag
  error,          \* apartment store: error message or NULL
  pagination,     \* apartment store: [page, limit, total]
  hasMore,        \* apartment store
  metadata,       \* apartment store: filter metadata or NULL
  filters,        \* filter store: [priceRange, areaRange, rooms, floors]
  fMetadata,      \* filter store: metadata or NULL
  fLoading,       \* filter store: loading flag
  fError,         \* filter store: error message or NULL
  isActive,       \* filter store
  storedFilters,  \* localStorage['apartment-filters'] (parsed JSON) or NULL
  now,            \* Date.now()
  inflight,       \* bag of the loads suspended at their fetch
  memoryCache,    \* memoryCache of one useApiCache() instance: key -> entry
  cacheStorage,   \* localStorage items under the cache keys: key -> entry
  cachePending,   \* cachedFetch calls of that instance suspended at $fetch
  routeQuery,     \* route.query: parameter name -> values
  lastReset,      \* history: filters argument of the most recently issued reset
                  \* load of the list now shown, or NULL when there is none
  view,           \* the listing page: bootstrap flags and the debounce pipeline
  ev              \* the last handler that ran and what it was given

aptVars == <<apartments, loading, error, pagination, hasMore, metadata>>
filterVars == <<filters, fMetadata, fLoading, fError, isActive>>
cacheVars == <<memoryCache, cacheStorage, cachePending>>
\* the clock, the cache instance and the route: untouched by the two stores
envVars == <<now, memoryCache, cacheStorage, cachePending, routeQuery, view>>
loadVars == <<inflight, lastReset>>
vars == <<apartments, loading, error, pagination, hasMore, metadata,
          filters, fMetadata, fLoading, fError, isActive,
          storedFilters, now, inflight,
          memoryCache, cacheStorage, cachePending, routeQuery,
          lastReset, view, ev>>

Event(op) ==
  [op |-> op, call |-> NullObject, ok |-> TRUE,
   started |-> FALSE, hadMore |-> FALSE, pending |-> 0,
   arg |-> NullObject, result |-> NullObject, threw |-> FALSE]

(***************************************************************************)
(* Apartment list store (stores/apartmentStore).                           *)
(***************************************************************************)
FetchErrorMessage == "fetch failed"

canLoadMore == hasMore /\ ~loading

\* BuildParams with the rooms parameter appended whether or not rooms is empty
BuildParams_AlwaysRooms(page, limit, f) ==
  <<Param("page", NumberToString(page)), Param("limit", NumberToString(limit))>>
  \o (IF f = Undefined THEN <<>>
      ELSE <<Param("priceMin", NumberToString(f.priceRange[1])),
             Param("priceMax", NumberToString(f.priceRange[2])),
             Param("areaMin", AreaToString(f.areaRange[1])),
             Param("areaMax", AreaToString(f.areaRange[2])),
             Param("rooms", JoinComma(f.rooms)),
             Param("floorMin", NumberToString(f.floors[1])),
             Param("floorMax", NumberToString(f.floors[2]))>>)

(* The URLSearchParams loadApartments builds.  Percent-encoding and the     *)
(* server's decoding of it are inverse on the characters that occur         *)
(* (digits, '.', ',', '-'), so the pairs stand for the query string.        *)
BuildParams(page, limit, f) ==
  <<Param("page", NumberToString(page)), Param("limit", NumberToString(limit))>>
  \o (IF f = Undefined THEN <<>>
      ELSE <<Param("priceMin", NumberToString(f.priceRange[1])),
             Param("priceMax", NumberToString(f.priceRange[2])),
             Param("areaMin", AreaToString(f.areaRange[1])),
             Param("areaMax", AreaToString(f.areaRange[2]))>>
           \o (IF Len(f.rooms) > 0
               THEN <<Param("rooms", JoinComma(f.rooms))>> ELSE <<>>)
           \o <<Param("floorMin", NumberToString(f.floors[1])),
                Param("floorMax", NumberToString(f.floors[2]))>>)

\* number of loads suspended at their fetch
Pending == BagCardinality(inflight)

\* loadApartments up to its await: flags, page reset, query, fetch issued.
\* caller is the function that awaits the load, pageNow is pagination.page as
\* the caller left it and pageBefore is pagination.page when the caller began.
NewCall(caller, f, reset, pageNow, pageBefore) ==
  LET page == IF reset THEN 1 ELSE pageNow
  IN [caller |-> caller, filters |-> f, reset |-> reset,
      page |-> page, limit |-> pagination.limit,
      params |-> BuildParams(page, pagination.limit, f),
      pageBefore |-> pageBefore]

StartLoad(c) ==
  /\ loading' = TRUE
  /\ error' = NULL
  /\ pagination' = [pagination EXCEPT !.page = c.page]
  /\ inflight' = inflight (+) SetToBag({c})
  /\ lastReset' = IF c.reset THEN c.filters ELSE lastReset
  /\ UNCHANGED <<apartments, hasMore, metadata>>

\* loadApartments catches every failure of its body and returns normally
LoadApartmentsRejects(c, ok) == FALSE

\* FinishLoad with the catch block clearing the list whatever the kind of load
FinishLoad_ClearsOnEveryFailure(c, ok, response) ==
  LET list == IF c.reset THEN response.apartments
              ELSE apartments \o response.apartments
  IN /\ inflight' = inflight (-) SetToBag({c})
     /\ lastReset' = lastReset
     /\ loading' = FALSE
     /\ IF ok
        THEN /\ apartments' = list
             /\ pagination' = [pagination EXCEPT !.total = response.meta.total]
             /\ hasMore' = (Len(list) < response.meta.total)
             /\ metadata' = response.meta.filters
             /\ error' = error
        ELSE /\ error' = FetchErrorMessage
             /\ apartments' = <<>>
             /\ UNCHANGED <<pagination, hasMore, metadata>>

\* FinishLoad with hasMore computed with <= instead of <
FinishLoad_HasMoreLeq(c, ok, response) ==
  LET list == IF c.reset THEN response.apartments
              ELSE apartments \o response.apartments
  IN /\ inflight' = inflight (-) SetToBag({c})
     /\ lastReset' = lastReset
     /\ loading' = FALSE
     /\ IF ok
        THEN /\ apartments' = list
             /\ pagination' = [pagination EXCEPT !.total = response.meta.total]
             /\ hasMore' = (Len(list) <= response.meta.total)
             /\ metadata' = response.meta.filters
             /\ error' = error
        ELSE /\ error' = FetchErrorMessage
             /\ apartments' = IF c.reset THEN <<>> ELSE apartments
             /\ UNCHANGED <<pagination, hasMore, metadata>>

\* FinishLoad with loading cleared at the end of the try block, not in finally
FinishLoad_LoadingClearedOnSuccess(c, ok, response) ==
  LET list == IF c.reset THEN response.apartments
              ELSE apartments \o response.apartments
  IN /\ inflight' = inflight (-) SetToBag({c})
     /\ lastReset' = lastReset
     /\ loading' = IF ok THEN FALSE ELSE loading
     /\ IF ok
        THEN /\ apartments' = list
             /\ pagination' = [pagination EXCEPT !.total = response.meta.total]
             /\ hasMore' = (Len(list) < response.meta.total)
             /\ metadata' = response.meta.filters
             /\ error' = error
        ELSE /\ error' = FetchErrorMessage
             /\ apartments' = IF c.reset THEN <<>> ELSE apartments
             /\ UNCHANGED <<pagination, hasMore, metadata>>

\* loadApartments after its await (success or catch, then finally), followed by
\* the continuation of the caller that awaited it
FinishLoad(c, ok, response) ==
  LET list == IF c.reset THEN response.apartments
              ELSE apartments \o response.apartments
      rollback == c.caller = "loadMore" /\ LoadApartmentsRejects(c, ok)
  IN /\ inflight' = inflight (-) SetToBag({c})
     /\ lastReset' = lastReset
     /\ loading' = FALSE
     /\ IF ok
        THEN /\ apartments' = list
             /\ pagination' = [pagination EXCEPT !.total = response.meta.total]
             /\ hasMore' = (Len(list) < response.meta.total)
             /\ metadata' = response.meta.filters
             /\ error' = error
        ELSE /\ error' = FetchErrorMessage
             /\ apartments' = IF c.reset THEN <<>> ELSE apartments
             /\ pagination' = IF rollback
                              THEN [pagination EXCEPT !.page = @ - 1]
                              ELSE pagination
             /\ UNCHANGED <<hasMore, metadata>>

LoadApartments(f, reset) ==
  /\ Pending < MaxInFlight
  /\ StartLoad(NewCall("none", f, reset, pagination.page, pagination.page))
  /\ ev' = Event("loadApartments")
  /\ UNCHANGED <<filters, fMetadata, fLoading, fError, isActive, storedFilters, envVars>>

FilterApartments(f) ==
  /\ Pending < MaxInFlight
  /\ StartLoad(NewCall("none", f, TRUE, pagination.page, pagination.page))
  /\ ev' = Event("filterApartments")
  /\ UNCHANGED <<filters, fMetadata, fLoading, fError, isActive, storedFilters, envVars>>

LoadMore ==
  /\ IF ~canLoadMore
     THEN /\ ev' = [Event("loadMore") EXCEPT !.hadMore = hasMore, !.pending = Pending]
          /\ UNCHANGED <<aptVars, loadVars>>
     ELSE /\ Pending < MaxInFlight
          /\ pagination.page < MaxPage
          /\ StartLoad(NewCall("loadMore", Undefined, FALSE,
                               pagination.page + 1, pagination.page))
          /\ ev' = [Event("loadMore") EXCEPT !.started = TRUE, !.hadMore = hasMore,
                                             !.pending = Pending]
  /\ UNCHANGED <<filters, fMetadata, fLoading, fError, isActive, storedFilters, envVars>>

ResetApartments ==
  /\ apartments' = <<>>
  /\ pagination' = [pagination EXCEPT !.page = 1, !.total = 0]
  /\ hasMore' = TRUE
  /\ error' = NULL
  /\ ev' = Event("resetApartments")
  /\ lastReset' = NullObject
  /\ UNCHANGED <<loading, metadata, inflight>>
  /\ UNCHANGED <<filters, fMetadata, fLoading, fError, isActive, storedFilters, envVars>>

UpdatePaginationLimit(limit) ==
  /\ apartments' = <<>>
  /\ pagination' = [page |-> 1, limit |-> limit, total |-> 0]
  /\ hasMore' = TRUE
  /\ error' = NULL
  /\ ev' = Event("updatePaginationLimit")
  /\ lastReset' = NullObject
  /\ UNCHANGED <<loading, metadata, inflight>>
  /\ UNCHANGED <<filters, fMetadata, fLoading, fError, isActive, storedFilters, envVars>>

\* the fetch of call c resolves (ok) or rejects
Settle(c, ok) ==
  /\ c.caller # "applyFilters"
  /\ FinishLoad(c, ok, ApartmentsApi(c.params))
  /\ ev' = [Event("settle") EXCEPT !.call = c, !.ok = ok]
  /\ UNCHANGED <<filters, fMetadata, fLoading, fError, isActive, storedFilters, envVars>>

(***************************************************************************)
(* Initial state and the specification of the list store.                  *)
(***************************************************************************)
InitialFilters ==
  [priceRange |-> <<3200000, 25000000>>,
   areaRange |-> <<255, 1500>>,
   rooms |-> <<>>,
   floors |-> <<1, 20>>]

Init ==
  /\ apartments = <<>>
  /\ loading = FALSE
  /\ error = NULL
  /\ pagination = [page |-> 1, limit |-> 20, total |-> 0]
  /\ hasMore = TRUE
  /\ metadata = NullObject
  /\ filters = InitialFilters
  /\ fMetadata = NullObject
  /\ fLoading = FALSE
  /\ fError = NULL
  /\ isActive = FALSE
  /\ storedFilters = NullObject
  /\ now = 0
  /\ inflight = EmptyBag
  /\ lastReset = NullObject
  /\ view = NullObject
  /\ memoryCache = <<>>
  /\ cacheStorage = <<>>
  /\ cachePending = {}
  /\ routeQuery = <<>>
  /\ ev = Event("init")

\* filter arguments handed to the list store: none, or a price filter that
\* 23 of the 25 apartments pass (more than one page of 20)
FilterArgs ==
  {Undefined,
   [priceRange |-> <<4000000, 24000000>>, areaRange |-> <<10, 10000>>,
    rooms |-> <<>>, floors |-> <<1, 50>>]}

\* The page passes reset = true in every direct call (onMounted, handleRetry);
\* loadMore is the one caller that passes false.
Next ==
  \/ \E f \in FilterArgs, reset \in {TRUE} : LoadApartments(f, reset)
  \/ \E f \in FilterArgs : FilterApartments(f)
  \/ LoadMore
  \/ ResetApartments
  \/ \E limit \in {20} : UpdatePaginationLimit(limit)
  \/ \E c \in BagToSet(inflight), ok \in BOOLEAN : Settle(c, ok)

Spec == Init /\ [][Next]_vars

(***************************************************************************)
(* Filter persistence (useFilterPersistence).  The stored item is the      *)
(* JSON document; JSON.stringify / JSON.parse copy the numbers and arrays  *)
(* of a filter set unchanged, so the document is held as a record.         *)
(***************************************************************************)
MaxAge == 604800000

saveFilters(f) ==
  [priceRange |-> f.priceRange, areaRange |-> f.areaRange,
   rooms |-> f.rooms, floors |-> f.floors, timestamp |-> now]

\* loadFilters removes an item older than maxAge
loadFiltersExpired(stored) ==
  stored # NullObject /\ stored.timestamp # 0 /\ now - stored.timestamp > MaxAge

loadFilters(stored) ==
  IF stored = NullObject \/ loadFiltersExpired(stored) THEN NullObject
  ELSE [priceRange |-> stored.priceRange, areaRange |-> stored.areaRange,
        rooms |-> stored.rooms, floors |-> stored.floors]

(***************************************************************************)
(* Filter store (stores/filterStore).  The operations are functions on the *)
(* store's state S = [filters, metadata, loading, error, isActive] joined  *)
(* with the persisted item (stored), so that a handler that calls several  *)
(* of them in a row is their composition.                                  *)
(***************************************************************************)
FilterStore ==
  [filters |-> filters, metadata |-> fMetadata, loading |-> fLoading,
   error |-> fError, isActive |-> isActive, stored |-> storedFilters]

SetFilterStore(S) ==
  /\ filters' = S.filters
  /\ fMetadata' = S.metadata
  /\ fLoading' = S.loading
  /\ fError' = S.error
  /\ isActive' = S.isActive
  /\ storedFilters' = S.stored

Includes(seq, x) == \E i \in 1..Len(seq) : seq[i] = x

IndexOf(seq, x) ==
  IF Includes(seq, x)
  THEN (CHOOSE i \in 1..Len(seq) : seq[i] = x /\ \A j \in 1..(i - 1) : seq[j] # x)
  ELSE 0

\* Array.prototype.splice(index, 1) for a 1-based index
RemoveAt(seq, i) == SubSeq(seq, 1, i - 1) \o SubSeq(seq, i + 1, Len(seq))

\* Array.prototype.sort((a, b) => a - b)
RECURSIVE SortAscending(_)
SortAscending(seq) ==
  IF seq = <<>> THEN <<>>
  ELSE LET i == CHOOSE k \in 1..Len(seq) :
                  /\ \A j \in 1..Len(seq) : seq[k] <= seq[j]
                  /\ \A j \in 1..(k - 1) : seq[j] # seq[k]
       IN <<seq[i]>> \o SortAscending(RemoveAt(seq, i))

hasActiveFilters(f, m) ==
  IF m = NullObject THEN FALSE
  ELSE \/ f.priceRange[1] # m.priceRange[1] \/ f.priceRange[2] # m.priceRange[2]
       \/ f.areaRange[1] # m.areaRange[1] \/ f.areaRange[2] # m.areaRange[2]
       \/ Len(f.rooms) > 0
       \/ f.floors[1] # m.floorsRange[1] \/ f.floors[2] # m.floorsRange[2]

(* Error messages.  The source's texts are Russian and format the price     *)
(* bounds with toLocaleString(); the model keeps their structure (which     *)
(* dimension, which bounds, which rooms) in English with plain digits.      *)
PriceMessage(m) ==
  "Price must be between " \o ToString(m.priceRange[1]) \o " and "
    \o ToString(m.priceRange[2]) \o " rub."

AreaMessage(m) ==
  "Area must be between " \o ToString(m.areaRange[1]) \o " and "
    \o ToString(m.areaRange[2]) \o " tenths of m2"

FloorsMessage(m) ==
  "Floor must be between " \o ToString(m.floorsRange[1]) \o " and "
    \o ToString(m.floorsRange[2])

\* invalidRooms.join(", ")
RECURSIVE JoinText(_)
JoinText(nums) ==
  IF nums = <<>> THEN ""
  ELSE IF Len(nums) = 1 THEN ToString(nums[1])
  ELSE ToString(nums[1]) \o ", " \o JoinText(Tail(nums))

RoomsMessage(invalidRooms) == "Unavailable room options: " \o JoinText(invalidRooms)

\* The validators return whether the value passes and the store's error after
\* the call (they write this.error on a bound violation only).
RangeRejected(range, metaRange) ==
  range[1] < metaRange[1] \/ range[2] > metaRange[2] \/ range[1] > range[2]

validatePriceRange(S, range) ==
  IF S.metadata = NullObject THEN [ok |-> FALSE, error |-> S.error]
  ELSE IF RangeRejected(range, S.metadata.priceRange)
       THEN [ok |-> FALSE, error |-> PriceMessage(S.metadata)]
       ELSE [ok |-> TRUE, error |-> S.error]

validateAreaRange(S, range) ==
  IF S.metadata = NullObject THEN [ok |-> FALSE, error |-> S.error]
  ELSE IF RangeRejected(range, S.metadata.areaRange)
       THEN [ok |-> FALSE, error |-> AreaMessage(S.metadata)]
       ELSE [ok |-> TRUE, error |-> S.error]

validateRooms(S, rooms) ==
  IF S.metadata = NullObject THEN [ok |-> FALSE, error |-> S.error]
  ELSE LET Invalid(room) == ~Includes(S.metadata.roomsAvailable, room)
           invalidRooms == SelectSeq(rooms, Invalid)
       IN IF Len(invalidRooms) > 0
          THEN [ok |-> FALSE, error |-> RoomsMessage(invalidRooms)]
          ELSE [ok |-> TRUE, error |-> S.error]

validateFloorsRange(S, range) ==
  IF S.metadata = NullObject THEN [ok |-> FALSE, error |-> S.error]
  ELSE IF RangeRejected(range, S.metadata.floorsRange)
       THEN [ok |-> FALSE, error |-> FloorsMessage(S.metadata)]
       ELSE [ok |-> TRUE, error |-> S.error]

\* the tail shared by the accepting branch of the four setters
Accept(S, f) ==
  [S EXCEPT !.filters = f,
            !.isActive = hasActiveFilters(f, S.metadata),
            !.error = NULL,
            !.stored = saveFilters(f)]

updatePriceRange(S, range) ==
  LET v == validatePriceRange(S, range)
  IN IF v.ok THEN Accept(S, [S.filters EXCEPT !.priceRange = range])
     ELSE [S EXCEPT !.error = v.error]

updateAreaRange(S, range) ==
  LET v == validateAreaRange(S, range)
  IN IF v.ok THEN Accept(S, [S.filters EXCEPT !.areaRange = range])
     ELSE [S EXCEPT !.error = v.error]

updateRooms(S, rooms) ==
  LET v == validateRooms(S, rooms)
  IN IF v.ok THEN Accept(S, [S.filters EXCEPT !.rooms = rooms])
     ELSE [S EXCEPT !.error = v.error]

updateFloorsRange(S, range) ==
  LET v == validateFloorsRange(S, range)
  IN IF v.ok THEN Accept(S, [S.filters EXCEPT !.floors = range])
     ELSE [S EXCEPT !.error = v.error]

toggleRoom(S, roomCount) ==
  LET index == IndexOf(S.filters.rooms, roomCount)
      rooms == IF index > 0 THEN RemoveAt(S.filters.rooms, index)
               ELSE Append(S.filters.rooms, roomCount)
      f == [S.filters EXCEPT !.rooms = SortAscending(rooms)]
  IN [S EXCEPT !.filters = f,
               !.isActive = hasActiveFilters(f, S.metadata),
               !.stored = saveFilters(f)]

defaultFilters(m) ==
  [priceRange |-> m.priceRange, areaRange |-> m.areaRange,
   rooms |-> <<>>, floors |-> m.floorsRange]

\* resetFilters without the clearFilters() call
resetFilters_KeepsStored(S) ==
  IF S.metadata = NullObject THEN S
  ELSE [S EXCEPT !.filters = defaultFilters(S.metadata),
                 !.isActive = FALSE,
                 !.error = NULL]

resetFilters(S) ==
  IF S.metadata = NullObject THEN S
  ELSE [S EXCEPT !.filters = defaultFilters(S.metadata),
                 !.isActive = FALSE,
                 !.error = NULL,
                 !.stored = NullObject]

\* saved may hold only some of the dimensions (URL filters)
SavedRangeOk(saved, field, metaRange) ==
  /\ field \in DOMAIN saved
  /\ saved[field][1] >= metaRange[1]
  /\ saved[field][2] <= metaRange[2]
  /\ saved[field][1] <= saved[field][2]

\* validateSavedFilters giving the defaults unless every dimension is valid
validateSavedFilters_AllOrNothing(saved, m) ==
  LET Valid(room) == Includes(m.roomsAvailable, room)
  IN IF /\ SavedRangeOk(saved, "priceRange", m.priceRange)
        /\ SavedRangeOk(saved, "areaRange", m.areaRange)
        /\ SavedRangeOk(saved, "floors", m.floorsRange)
        /\ "rooms" \in DOMAIN saved
        /\ SelectSeq(saved.rooms, Valid) = saved.rooms
     THEN [priceRange |-> saved.priceRange, areaRange |-> saved.areaRange,
           rooms |-> saved.rooms, floors |-> saved.floors]
     ELSE [priceRange |-> m.priceRange, areaRange |-> m.areaRange,
           rooms |-> <<>>, floors |-> m.floorsRange]

validateSavedFilters(saved, m) ==
  LET Valid(room) == Includes(m.roomsAvailable, room)
  IN [priceRange |-> IF SavedRangeOk(saved, "priceRange", m.priceRange)
                     THEN saved.priceRange ELSE m.priceRange,
      areaRange |-> IF SavedRangeOk(saved, "areaRange", m.areaRange)
                    THEN saved.areaRange ELSE m.areaRange,
      rooms |-> IF "rooms" \in DOMAIN saved
                THEN SelectSeq(saved.rooms, Valid) ELSE <<>>,
      floors |-> IF SavedRangeOk(saved, "floors", m.floorsRange)
                 THEN saved.floors ELSE m.floorsRange]

initializeFilters(S, m) ==
  LET savedFilters == loadFilters(S.stored)
      f == IF savedFilters # NullObject
           THEN validateSavedFilters(savedFilters, m)
           ELSE defaultFilters(m)
  IN [S EXCEPT !.metadata = m,
               !.filters = f,
               !.isActive = hasActiveFilters(f, m),
               !.error = NULL,
               !.stored = IF loadFiltersExpired(S.stored) THEN NullObject ELSE @]

\* applyUrlFilters keeping the store's value for a dimension the URL lacks
applyUrlFilters_KeepsStored(S, urlFilters) ==
  IF S.metadata = NullObject THEN S
  ELSE LET f == validateSavedFilters(urlFilters @@ S.filters, S.metadata)
       IN [S EXCEPT !.filters = f,
                    !.isActive = hasActiveFilters(f, S.metadata),
                    !.error = NULL]

applyUrlFilters(S, urlFilters) ==
  IF S.metadata = NullObject THEN S
  ELSE LET f == validateSavedFilters(urlFilters, S.metadata)
       IN [S EXCEPT !.filters = f,
                    !.isActive = hasActiveFilters(f, S.metadata),
                    !.error = NULL]

\* validateAllFilters: the four validators in turn, each failure recorded with
\* this.error as it stands after that validator, or the fallback text
ValidationStep(acc, v, fallback) ==
  [S |-> [acc.S EXCEPT !.error = v.error],
   errors |-> IF v.ok THEN acc.errors
              ELSE Append(acc.errors, IF v.error # NULL THEN v.error ELSE fallback)]

\* validateAllFilters without the rooms validator
validateAllFilters_SkipsRooms(S) ==
  LET a0 == [S |-> S, errors |-> <<>>]
      a1 == ValidationStep(a0, validatePriceRange(a0.S, S.filters.priceRange),
                           "Invalid price range")
      a2 == ValidationStep(a1, validateAreaRange(a1.S, S.filters.areaRange),
                           "Invalid area range")
      a4 == ValidationStep(a2, validateFloorsRange(a2.S, S.filters.floors),
                           "Invalid floors range")
  IN [isValid |-> Len(a4.errors) = 0, errors |-> a4.errors, S |-> a4.S]

validateAllFilters(S) ==
  LET a0 == [S |-> S, errors |-> <<>>]
      a1 == ValidationStep(a0, validatePriceRange(a0.S, S.filters.priceRange),
                           "Invalid price range")
      a2 == ValidationStep(a1, validateAreaRange(a1.S, S.filters.areaRange),
                           "Invalid area range")
      a3 == ValidationStep(a2, validateRooms(a2.S, S.filters.rooms),
                           "Invalid rooms selection")
      a4 == ValidationStep(a3, validateFloorsRange(a3.S, S.filters.floors),
                           "Invalid floors range")
  IN [isValid |-> Len(a4.errors) = 0, errors |-> a4.errors, S |-> a4.S]

\* errors.map(e => e.message).join(", ")
RECURSIVE JoinMessages(_)
JoinMessages(msgs) ==
  IF msgs = <<>> THEN ""
  ELSE IF Len(msgs) = 1 THEN msgs[1]
  ELSE msgs[1] \o ", " \o JoinMessages(Tail(msgs))

(***************************************************************************)
(* Filter panel (FilterPanel component) and the page's handler of its      *)
(* filter-change event.  localFilters is a shallow copy of the store's     *)
(* filters: its priceRange, areaRange, rooms and floors are the store's    *)
(* own arrays, so a write to an element of localFilters is a write to the  *)
(* store.                                                                  *)
(***************************************************************************)
\* :min="metadata?.x[0] || 0" and :max="metadata?.x[1] || fallback" of a slider
SliderMin(m, dim) ==
  IF m = NullObject \/ m[dim][1] = 0 THEN 0 ELSE m[dim][1]

SliderMax(m, dim) ==
  IF m = NullObject \/ m[dim][2] = 0
  THEN (IF dim = "priceRange" THEN 999999999 ELSE 9990)
  ELSE m[dim][2]

\* validateAndEmit without the repair of an inverted range
validateAndEmit_NoRepair(f) ==
  [priceRange |-> f.priceRange, areaRange |-> f.areaRange,
   rooms |-> f.rooms, floors |-> f.floors]

validateAndEmit(f) ==
  [priceRange |-> IF f.priceRange[1] > f.priceRange[2]
                  THEN <<f.priceRange[1], f.priceRange[1]>> ELSE f.priceRange,
   areaRange |-> IF f.areaRange[1] > f.areaRange[2]
                 THEN <<f.areaRange[1], f.areaRange[1]>> ELSE f.areaRange,
   rooms |-> f.rooms,
   floors |-> IF f.floors[1] > f.floors[2]
              THEN <<f.floors[1], f.floors[1]>> ELSE f.floors]

\* handleFilterChange(newFilters), the store part (clearApartmentsError aside)
handleFilterChange(S, newFilters) ==
  updateFloorsRange(
    updateRooms(
      updateAreaRange(
        updatePriceRange(S, newFilters.priceRange),
        newFilters.areaRange),
      newFilters.rooms),
    newFilters.floors)

(***************************************************************************)
(* Actions of the filter store and the panel.                              *)
(***************************************************************************)
InitializeFilters(m) ==
  /\ SetFilterStore(initializeFilters(FilterStore, m))
  /\ ev' = [Event("initializeFilters") EXCEPT !.arg = m]
  /\ UNCHANGED <<aptVars, envVars, loadVars>>

ApplyUrlFilters(urlFilters) ==
  /\ SetFilterStore(applyUrlFilters(FilterStore, urlFilters))
  /\ ev' = Event("applyUrlFilters")
  /\ UNCHANGED <<aptVars, envVars, loadVars>>

UpdatePriceRange(range) ==
  /\ SetFilterStore(updatePriceRange(FilterStore, range))
  /\ ev' = Event("updatePriceRange")
  /\ UNCHANGED <<aptVars, envVars, loadVars>>

UpdateAreaRange(range) ==
  /\ SetFilterStore(updateAreaRange(FilterStore, range))
  /\ ev' = Event("updateAreaRange")
  /\ UNCHANGED <<aptVars, envVars, loadVars>>

UpdateRooms(rooms) ==
  /\ SetFilterStore(updateRooms(FilterStore, rooms))
  /\ ev' = Event("updateRooms")
  /\ UNCHANGED <<aptVars, envVars, loadVars>>

UpdateFloorsRange(range) ==
  /\ SetFilterStore(updateFloorsRange(FilterStore, range))
  /\ ev' = Event("updateFloorsRange")
  /\ UNCHANGED <<aptVars, envVars, loadVars>>

ToggleRoom(roomCount) ==
  /\ SetFilterStore(toggleRoom(FilterStore, roomCount))
  /\ ev' = Event("toggleRoom")
  /\ UNCHANGED <<aptVars, envVars, loadVars>>

ResetFilters ==
  /\ SetFilterStore(resetFilters(FilterStore))
  /\ ev' = Event("resetFilters")
  /\ UNCHANGED <<aptVars, envVars, loadVars>>

\* The user moves the min (idx = 1) or max (idx = 2) slider of dim to value:
\* v-model writes the element, then validateAndEmit runs and the page handles
\* the event.  The sliders are disabled while the filter store is loading.
PanelInput(dim, idx, value) ==
  /\ ~fLoading
  /\ SliderMin(fMetadata, dim) <= value /\ value <= SliderMax(fMetadata, dim)
  /\ LET written == [filters EXCEPT ![dim][idx] = value]
         emitted == validateAndEmit(written)
     IN SetFilterStore(handleFilterChange([FilterStore EXCEPT !.filters = emitted],
                                          emitted))
  /\ error' = NULL
  /\ ev' = Event("panelInput")
  /\ UNCHANGED <<apartments, loading, pagination, hasMore, metadata, envVars, loadVars>>

\* rooms offered by the panel: metadata?.roomsAvailable || [1, 2, 3, 4]
PanelRooms == IF fMetadata = NullObject THEN <<1, 2, 3, 4>> ELSE fMetadata.roomsAvailable

\* The user clicks a room button: splice or push on the rooms array, then
\* validateAndEmit and the page's handler.
PanelToggleRoom(room) ==
  /\ ~fLoading
  /\ Includes(PanelRooms, room)
  /\ LET index == IndexOf(filters.rooms, room)
         written == [filters EXCEPT !.rooms = IF index > 0 THEN RemoveAt(@, index)
                                              ELSE Append(@, room)]
         emitted == validateAndEmit(written)
     IN SetFilterStore(handleFilterChange([FilterStore EXCEPT !.filters = emitted],
                                          emitted))
  /\ error' = NULL
  /\ ev' = Event("panelToggleRoom")
  /\ UNCHANGED <<apartments, loading, pagination, hasMore, metadata, envVars, loadVars>>

\* applyFilters up to its return (invalid filters) or up to the await of the
\* list store's load (valid filters)
ApplyFilters ==
  LET S0 == [FilterStore EXCEPT !.loading = TRUE, !.error = NULL]
      validation == validateAllFilters(S0)
      filtersToApply == IF hasActiveFilters(filters, fMetadata)
                        THEN filters ELSE Undefined
  IN IF ~validation.isValid
     THEN /\ SetFilterStore([validation.S EXCEPT
                               !.error = JoinMessages(validation.errors),
                               !.loading = FALSE])
          /\ ev' = Event("applyFilters")
          /\ UNCHANGED <<aptVars, envVars, loadVars>>
     ELSE /\ Pending < MaxApplyInFlight
          /\ SetFilterStore(validation.S)
          /\ LET c == NewCall("applyFilters", filtersToApply, TRUE,
                              pagination.page, pagination.page)
             IN /\ StartLoad(c)
                /\ ev' = [Event("applyFilters") EXCEPT !.started = TRUE, !.call = c]
          /\ UNCHANGED envVars

\* the fetch of an applyFilters load resolves or rejects; the load finishes and
\* applyFilters runs its finally block
SettleApply(c, ok) ==
  /\ c.caller = "applyFilters"
  /\ FinishLoad(c, ok, ApartmentsApi(c.params))
  /\ fLoading' = FALSE
  /\ ev' = [Event("settle") EXCEPT !.call = c, !.ok = ok]
  /\ UNCHANGED <<filters, fMetadata, fError, isActive, storedFilters, envVars>>

(***************************************************************************)
(* Specification of the filter store and the panel (no fetch involved).    *)
(***************************************************************************)
\* what an earlier session may have left in localStorage
StoredAtStart ==
  {NullObject,
   [priceRange |-> <<5000000, 10000000>>, areaRange |-> <<10, 10001>>,
    rooms |-> <<2, 5>>, floors |-> <<1, 50>>, timestamp |-> 0],
   \* saved exactly maxAge ago, and one millisecond earlier
   [priceRange |-> <<0, 100000000>>, areaRange |-> <<255, 1500>>,
    rooms |-> <<>>, floors |-> <<1, 50>>, timestamp |-> 0 - MaxAge],
   [priceRange |-> <<0, 100000000>>, areaRange |-> <<255, 1500>>,
    rooms |-> <<>>, floors |-> <<1, 50>>, timestamp |-> 0 - MaxAge - 1]}

InitFilter ==
  /\ apartments = <<>>
  /\ loading = FALSE
  /\ error = NULL
  /\ pagination = [page |-> 1, limit |-> 20, total |-> 0]
  /\ hasMore = TRUE
  /\ metadata = NullObject
  /\ filters = InitialFilters
  /\ fMetadata = NullObject
  /\ fLoading = FALSE
  /\ fError = NULL
  /\ isActive = FALSE
  /\ storedFilters \in StoredAtStart
  /\ now = 0
  /\ inflight = EmptyBag
  /\ lastReset = NullObject
  /\ view = NullObject
  /\ memoryCache = <<>>
  /\ cacheStorage = <<>>
  /\ cachePending = {}
  /\ routeQuery = <<>>
  /\ ev = Event("init")

MetadataArgs == {DatasetMetadata}

PriceRangeArgs ==
  {<<0, 100000000>>, <<5000000, 10000000>>, <<10000000, 5000000>>,
   <<-1, 100000000>>, <<0, 100000001>>}

AreaRangeArgs == {<<10, 10000>>, <<1500, 255>>, <<9, 10000>>, <<10, 10001>>}

FloorsRangeArgs == {<<1, 20>>, <<20, 1>>, <<0, 50>>, <<1, 51>>}

RoomsArgs == {<<>>, <<2>>, <<2, 5>>}

ToggleArgs == {2, 3, 5}

\* ?priceMin=5000000&priceMax=10000000&rooms=2&rooms=2&rooms=5&floorMin=0&floorMax=50
UrlFilterArgs ==
  {[priceRange |-> <<5000000, 10000000>>, rooms |-> <<2, 2, 5>>, floors |-> <<0, 50>>]}

NextFilter ==
  \/ \E m \in MetadataArgs : InitializeFilters(m)
  \/ \E u \in UrlFilterArgs : ApplyUrlFilters(u)
  \/ \E r \in PriceRangeArgs : UpdatePriceRange(r)
  \/ \E r \in AreaRangeArgs : UpdateAreaRange(r)
  \/ \E rooms \in RoomsArgs : UpdateRooms(rooms)
  \/ \E r \in FloorsRangeArgs : UpdateFloorsRange(r)
  \/ \E n \in ToggleArgs : ToggleRoom(n)
  \/ ResetFilters
  \/ \E a \in {<<"priceRange", 5000000>>, <<"priceRange", 100000000>>, <<"areaRange", 10000>>},
       idx \in {1, 2} : PanelInput(a[1], idx, a[2])
  \/ \E room \in {2} : PanelToggleRoom(room)

SpecFilter == InitFilter /\ [][NextFilter]_vars

(***************************************************************************)
(* Specification of the apply pipeline: the filter store's applyFilters    *)
(* driving the list store.                                                 *)
(***************************************************************************)
NextApply ==
  \/ \E m \in MetadataArgs : InitializeFilters(m)
  \/ \E r \in {<<5000000, 10000000>>} : UpdatePriceRange(r)
  \/ \E rooms \in {<<2, 3>>} : UpdateRooms(rooms)
  \/ \E n \in {5} : ToggleRoom(n)
  \/ ResetFilters
  \/ ApplyFilters
  \/ \E c \in BagToSet(inflight), ok \in BOOLEAN : SettleApply(c, ok)

SpecApply == Init /\ [][NextApply]_vars

(***************************************************************************)
(* API cache (composables/useApiCache): one useApiCache() instance with    *)
(* its memoryCache, the localStorage items under the cache keys, and the   *)
(* cachedFetch calls suspended at $fetch.  Strings are sequences of        *)
(* one-character strings.                                                  *)
(***************************************************************************)
\* the printable ASCII characters, code 32 first (code 96, the grave accent, by name)
AsciiChars ==
  <<
    " ", "!", "\"", "#", "$", "%", "&", "'", "(", ")", "*", "+",
    ",", "-", ".", "/", "0", "1", "2", "3", "4", "5", "6", "7",
    "8", "9", ":", ";", "<", "=", ">", "?", "@", "A", "B", "C",
    "D", "E", "F", "G", "H", "I", "J", "K", "L", "M", "N", "O",
    "P", "Q", "R", "S", "T", "U", "V", "W", "X", "Y", "Z", "[",
    "\\", "]", "^", "_", "grave", "a", "b", "c", "d", "e", "f", "g",
    "h", "i", "j", "k", "l", "m", "n", "o", "p", "q", "r", "s",
    "t", "u", "v", "w", "x", "y", "z", "{", "|", "}", "~"
  >>

\* String.prototype.charCodeAt
CharCode(c) == 31 + (CHOOSE i \in 1..Len(AsciiChars) : AsciiChars[i] = c)

Base64Chars ==
  <<
    "A", "B", "C", "D", "E", "F", "G", "H", "I", "J", "K", "L", "M",
    "N", "O", "P", "Q", "R", "S", "T", "U", "V", "W", "X", "Y", "Z",
    "a", "b", "c", "d", "e", "f", "g", "h", "i", "j", "k", "l", "m",
    "n", "o", "p", "q", "r", "s", "t", "u", "v", "w", "x", "y", "z",
    "0", "1", "2", "3", "4", "5", "6", "7", "8", "9", "+", "/"
  >>

\* btoa: three bytes to four base64 digits, "=" padding on a short tail
RECURSIVE btoa(_)
btoa(str) ==
  IF str = <<>> THEN <<>>
  ELSE LET n == Len(str)
           b1 == CharCode(str[1])
           b2 == IF n >= 2 THEN CharCode(str[2]) ELSE 0
           b3 == IF n >= 3 THEN CharCode(str[3]) ELSE 0
           bits == b1 * 65536 + b2 * 256 + b3
       IN << Base64Chars[(bits \div 262144) + 1],
             Base64Chars[((bits \div 4096) % 64) + 1],
             IF n >= 2 THEN Base64Chars[((bits \div 64) % 64) + 1] ELSE "=",
             IF n >= 3 THEN Base64Chars[(bits % 64) + 1] ELSE "=" >>
          \o btoa(SubSeq(str, 4, n))

\* JSON.stringify of an object of numbers: the properties in insertion order.
\* An object is the sequence of its [key, value] properties in that order.
RECURSIVE JsonProperties(_)
JsonProperties(props) ==
  IF props = <<>> THEN <<>>
  ELSE <<"\"">> \o props[1].key \o <<"\"", ":">> \o NumberToString(props[1].value)
       \o (IF Len(props) > 1 THEN <<",">> ELSE <<>>)
       \o JsonProperties(Tail(props))

generateCacheKey(url, params) ==
  LET paramString == IF params = Undefined THEN <<>>
                     ELSE <<"{">> \o JsonProperties(params) \o <<"}">>
  IN <<"a", "p", "i", "_", "c", "a", "c", "h", "e", "_">> \o url \o <<"_">> \o btoa(paramString)

\* isCacheValid counting an entry whose age equals its ttl as valid
isCacheValid_Inclusive(entry) == now - entry.timestamp <= entry.ttl

isCacheValid(entry) == now - entry.timestamp < entry.ttl

Cache == [memory |-> memoryCache, storage |-> cacheStorage]

SetCacheState(C) ==
  /\ memoryCache' = C.memory
  /\ cacheStorage' = C.storage

\* Map.prototype.set / localStorage.setItem
MapSet(map, key, entry) ==
  [k \in (DOMAIN map) \cup {key} |-> IF k = key THEN entry ELSE map[k]]

\* Map.prototype.delete / localStorage.removeItem
MapDelete(map, key) == [k \in (DOMAIN map) \ {key} |-> map[k]]

\* getFromCache: the value returned ([data |-> d], or NullObject for null)
\* and the cache after the call
getFromCache(C, key, useLocalStorage) ==
  IF key \in DOMAIN C.memory /\ isCacheValid(C.memory[key])
  THEN [result |-> [data |-> C.memory[key].data], C |-> C]
  ELSE IF useLocalStorage /\ key \in DOMAIN C.storage
       THEN IF isCacheValid(C.storage[key])
            THEN [result |-> [data |-> C.storage[key].data],
                  C |-> [C EXCEPT !.memory = MapSet(@, key, C.storage[key])]]
            ELSE [result |-> NullObject,
                  C |-> [C EXCEPT !.storage = MapDelete(@, key)]]
       ELSE [result |-> NullObject, C |-> C]

setCache(C, key, data, ttl, useLocalStorage) ==
  LET entry == [data |-> data, timestamp |-> now, ttl |-> ttl]
  IN [memory |-> MapSet(C.memory, key, entry),
      storage |-> IF useLocalStorage THEN MapSet(C.storage, key, entry)
                  ELSE C.storage]

\* cachedFetchFallback falling back only on an entry that has not expired
cachedFetchFallback_OnlyFresh(C, key) ==
  IF key \in DOMAIN C.memory /\ isCacheValid(C.memory[key])
  THEN [threw |-> FALSE, result |-> [data |-> C.memory[key].data]]
  ELSE [threw |-> TRUE, result |-> NullObject]

\* cachedFetch's catch block: the stale entry's data whatever its age, or the
\* error rethrown
cachedFetchFallback(C, key) ==
  IF key \in DOMAIN C.memory
  THEN [threw |-> FALSE, result |-> [data |-> C.memory[key].data]]
  ELSE [threw |-> TRUE, result |-> NullObject]

\* what $fetch resolves with for a url
FetchResponse(url) == IF url = <<"/", "a">> THEN 1 ELSE 2

GenerateCacheKey(r1, r2) ==
  /\ ev' = [Event("generateCacheKey") EXCEPT
              !.arg = <<r1, r2>>,
              !.result = <<generateCacheKey(r1.url, r1.params),
                           generateCacheKey(r2.url, r2.params)>>]
  /\ UNCHANGED <<aptVars, filterVars, storedFilters, loadVars, envVars>>

SetCache(key, data, ttl, useLocalStorage) ==
  /\ SetCacheState(setCache(Cache, key, data, ttl, useLocalStorage))
  /\ ev' = [Event("setCache") EXCEPT
              !.arg = [key |-> key, data |-> data, ttl |-> ttl,
                       useLocalStorage |-> useLocalStorage]]
  /\ UNCHANGED <<aptVars, filterVars, storedFilters, loadVars, view, now, cachePending,
                 routeQuery>>

GetFromCache(key, useLocalStorage) ==
  /\ LET got == getFromCache(Cache, key, useLocalStorage)
     IN /\ SetCacheState(got.C)
        /\ ev' = [Event("getFromCache") EXCEPT
                    !.arg = [key |-> key, useLocalStorage |-> useLocalStorage],
                    !.result = got.result]
  /\ UNCHANGED <<aptVars, filterVars, storedFilters, loadVars, view, now, cachePending,
                 routeQuery>>

ClearCache(key, useLocalStorage) ==
  /\ memoryCache' = MapDelete(memoryCache, key)
  /\ cacheStorage' = IF useLocalStorage THEN MapDelete(cacheStorage, key)
                     ELSE cacheStorage
  /\ ev' = [Event("clearCache") EXCEPT
              !.arg = [key |-> key, useLocalStorage |-> useLocalStorage]]
  /\ UNCHANGED <<aptVars, filterVars, storedFilters, loadVars, view, now, cachePending,
                 routeQuery>>

\* cachedFetch up to its return of a cached value or up to the await of $fetch.
\* fresh: the caller took cachedFetch from a useApiCache() call of its own, as
\* loadApartments does for every load, so the call works on a new, empty
\* memoryCache; otherwise it reuses the instance of the previous calls.  A new
\* instance is taken only while no call of the previous one is suspended.
CachedFetch(url, ttl, useLocalStorage, fresh) ==
  LET cacheKey == generateCacheKey(url, <<>>)
      instance == IF fresh THEN [Cache EXCEPT !.memory = <<>>] ELSE Cache
      got == getFromCache(instance, cacheKey, useLocalStorage)
      c == [url |-> url, key |-> cacheKey, ttl |-> ttl,
            useLocalStorage |-> useLocalStorage]
  IN /\ fresh => cachePending = {}
     /\ SetCacheState(got.C)
     /\ IF got.result # NullObject /\ got.result.data # 0   \* if (cached)
        THEN /\ ev' = [Event("cachedFetch") EXCEPT !.call = c, !.result = got.result,
                                                   !.arg = [fresh |-> fresh]]
             /\ UNCHANGED cachePending
        ELSE /\ Cardinality(cachePending) < MaxCachePending
             /\ c \notin cachePending
             /\ cachePending' = cachePending \cup {c}
             /\ ev' = [Event("cachedFetch") EXCEPT !.call = c, !.started = TRUE,
                                                   !.arg = [fresh |-> fresh]]
     /\ UNCHANGED <<aptVars, filterVars, storedFilters, loadVars, view, now, routeQuery>>

\* $fetch of call c resolves (ok) or rejects: the rest of cachedFetch
CachedFetchSettle(c, ok) ==
  /\ c \in cachePending
  /\ cachePending' = cachePending \ {c}
  /\ IF ok
     THEN /\ SetCacheState(setCache(Cache, c.key, FetchResponse(c.url), c.ttl,
                                    c.useLocalStorage))
          /\ ev' = [Event("cachedFetchSettle") EXCEPT
                      !.call = c, !.result = [data |-> FetchResponse(c.url)]]
     ELSE /\ LET fallback == cachedFetchFallback(Cache, c.key)
             IN ev' = [Event("cachedFetchSettle") EXCEPT
                         !.call = c, !.ok = FALSE,
                         !.threw = fallback.threw,
                         !.result = fallback.result]
          /\ UNCHANGED <<memoryCache, cacheStorage>>
  /\ UNCHANGED <<aptVars, filterVars, storedFilters, loadVars, view, now, routeQuery>>

\* time passes
Tick(d) ==
  /\ now + d <= MaxTicks * d
  /\ now' = now + d
  /\ ev' = Event("tick")
  /\ UNCHANGED <<aptVars, filterVars, storedFilters, loadVars, view, cacheVars, routeQuery>>

(***************************************************************************)
(* Specification of the cache instance.                                    *)
(***************************************************************************)
UrlArgs == {<<"/", "a">>, <<"/", "b">>}

\* the key cachedFetch derives for the first endpoint
CacheKeyArgs == {generateCacheKey(<<"/", "a">>, <<>>)}

TtlArgs == {100}

\* requests: an endpoint and the parameter object, properties in insertion order
RequestArgs ==
  {[url |-> url, params |-> params] :
     url \in UrlArgs,
     params \in {Undefined, <<>>,
                 <<[key |-> <<"a">>, value |-> 1], [key |-> <<"b">>, value |-> 2]>>,
                 <<[key |-> <<"b">>, value |-> 2], [key |-> <<"a">>, value |-> 1]>>,
                 <<[key |-> <<"a">>, value |-> 1], [key |-> <<"b">>, value |-> 3]>>}}

NextCache ==
  \/ \E key \in CacheKeyArgs, data \in {0}, ttl \in TtlArgs, ls \in BOOLEAN :
       SetCache(key, data, ttl, ls)
  \/ \E key \in CacheKeyArgs, ls \in BOOLEAN : GetFromCache(key, ls)
  \/ \E key \in CacheKeyArgs : ClearCache(key, TRUE)
  \/ \E url \in UrlArgs, ttl \in TtlArgs, ls \in BOOLEAN, fresh \in BOOLEAN :
       CachedFetch(url, ttl, ls, fresh)
  \/ \E c \in cachePending, ok \in BOOLEAN : CachedFetchSettle(c, ok)
  \/ \E d \in {50} : Tick(d)

SpecCache == Init /\ [][NextCache]_vars

(***************************************************************************)
(* URL synchronisation (useUrlFilters).  route.query is the sequence of    *)
(* key/value pairs of the query string: a key that occurs once holds a     *)
(* string, a key that occurs several times holds the array of its values.  *)
(***************************************************************************)
\* Number(s) of a decimal string in units of 1/unit: optional sign, digits,
\* optional fraction of one digit; 0 for the empty string, NaN for any other
\* text.  Strings with more fractional digits than the unit holds are not
\* among the inputs of the model.
Number(s, unit) ==
  LET neg == s # <<>> /\ Head(s) = "-"
      body == IF neg THEN Tail(s) ELSE s
      n == DigitPrefixLen(body)
      rest == SubSeq(body, n + 1, Len(body))
      whole == DigitsValue(SubSeq(body, 1, n), 0) * unit
      abs == IF rest = <<>> THEN whole
             ELSE IF Len(rest) = 2 /\ rest[1] = "." /\ IsDigit(rest[2])
                     /\ (DigitValue(rest[2]) * unit) % 10 = 0
                  THEN whole + (DigitValue(rest[2]) * unit) \div 10
                  ELSE NaN
  IN IF s = <<>> THEN 0
     ELSE IF n = 0 \/ abs = NaN THEN NaN
     ELSE IF neg THEN 0 - abs ELSE abs

\* the values of key k, in the order of the query string
QueryValues(query, k) ==
  LET IsK(p) == p.key = k
      pairs == SelectSeq(query, IsK)
  IN [i \in 1..Len(pairs) |-> pairs[i].value]

\* truthiness of query[k]: undefined and the empty string are falsy, a
\* non-empty string and an array are truthy
QueryTruthy(query, k) ==
  LET values == QueryValues(query, k)
  IN Len(values) > 1 \/ (Len(values) = 1 /\ values[1] # <<>>)

\* Number(query[k]): an array of several values converts to NaN
QueryNumber(query, k, unit) ==
  LET values == QueryValues(query, k)
  IN IF Len(values) = 1 THEN Number(values[1], unit) ELSE NaN

\* one range of parseFiltersFromUrl: the dimension it adds to the result
ParseRange(query, field, minKey, maxKey, unit) ==
  LET lo == QueryNumber(query, minKey, unit)
      hi == QueryNumber(query, maxKey, unit)
  IN IF /\ QueryTruthy(query, minKey) /\ QueryTruthy(query, maxKey)
        /\ lo # NaN /\ hi # NaN /\ lo <= hi
     THEN field :> <<lo, hi>>
     ELSE <<>>

\* parseFiltersFromUrl that never reads floorMin / floorMax
parseFiltersFromUrl_NoFloors(query) ==
  LET roomsParam == QueryValues(query, "rooms")
      mapped == [i \in 1..Len(roomsParam) |-> Number(roomsParam[i], 1)]
      Keep(r) == r # NaN /\ r > 0
      rooms == SortAscending(SelectSeq(mapped, Keep))
      f == ParseRange(query, "priceRange", "priceMin", "priceMax", 1)
           @@ ParseRange(query, "areaRange", "areaMin", "areaMax", 10)
           @@ (IF QueryTruthy(query, "rooms") /\ Len(rooms) > 0
               THEN "rooms" :> rooms ELSE <<>>)
  IN IF query = <<>> THEN NullObject
     ELSE IF DOMAIN f # {} THEN f ELSE NullObject

\* the partial filter set (a function on the accepted dimensions) or null
parseFiltersFromUrl(query) ==
  LET roomsParam == QueryValues(query, "rooms")
      mapped == [i \in 1..Len(roomsParam) |-> Number(roomsParam[i], 1)]
      Keep(r) == r # NaN /\ r > 0
      rooms == SortAscending(SelectSeq(mapped, Keep))
      f == ParseRange(query, "priceRange", "priceMin", "priceMax", 1)
           @@ ParseRange(query, "areaRange", "areaMin", "areaMax", 10)
           @@ (IF QueryTruthy(query, "rooms") /\ Len(rooms) > 0
               THEN "rooms" :> rooms ELSE <<>>)
           @@ ParseRange(query, "floors", "floorMin", "floorMax", 1)
  IN IF query = <<>> THEN NullObject
     ELSE IF DOMAIN f # {} THEN f ELSE NullObject

RangeDiffers(a, b) == a[1] # b[1] \/ a[2] # b[2]

\* updateUrlWithFilters writing the rooms as one parameter holding the first room
updateUrlWithFilters_FirstRoom(f, defaults) ==
  (IF RangeDiffers(f.priceRange, defaults.priceRange)
   THEN <<Param("priceMin", NumberToString(f.priceRange[1])),
          Param("priceMax", NumberToString(f.priceRange[2]))>>
   ELSE <<>>)
  \o (IF RangeDiffers(f.areaRange, defaults.areaRange)
      THEN <<Param("areaMin", AreaToString(f.areaRange[1])),
             Param("areaMax", AreaToString(f.areaRange[2]))>>
      ELSE <<>>)
  \o (IF Len(f.rooms) > 0 THEN <<Param("rooms", NumberToString(f.rooms[1]))>>
      ELSE <<>>)
  \o (IF RangeDiffers(f.floors, defaults.floors)
      THEN <<Param("floorMin", NumberToString(f.floors[1])),
             Param("floorMax", NumberToString(f.floors[2]))>>
      ELSE <<>>)

\* the query object updateUrlWithFilters builds; router.replace({path, query})
\* makes it the route's query
updateUrlWithFilters(f, defaults) ==
  (IF RangeDiffers(f.priceRange, defaults.priceRange)
   THEN <<Param("priceMin", NumberToString(f.priceRange[1])),
          Param("priceMax", NumberToString(f.priceRange[2]))>>
   ELSE <<>>)
  \o (IF RangeDiffers(f.areaRange, defaults.areaRange)
      THEN <<Param("areaMin", AreaToString(f.areaRange[1])),
             Param("areaMax", AreaToString(f.areaRange[2]))>>
      ELSE <<>>)
  \o [i \in 1..Len(f.rooms) |-> Param("rooms", NumberToString(f.rooms[i]))]
  \o (IF RangeDiffers(f.floors, defaults.floors)
      THEN <<Param("floorMin", NumberToString(f.floors[1])),
             Param("floorMax", NumberToString(f.floors[2]))>>
      ELSE <<>>)

\* the page is opened at, or navigates to, a URL
Navigate(query) ==
  /\ routeQuery' = query
  /\ ev' = [Event("navigate") EXCEPT !.arg = query]
  /\ UNCHANGED <<aptVars, filterVars, storedFilters, loadVars, view, now, cacheVars>>

ParseFiltersFromUrl ==
  /\ ev' = [Event("parseFiltersFromUrl") EXCEPT
              !.arg = routeQuery, !.result = parseFiltersFromUrl(routeQuery)]
  /\ UNCHANGED <<aptVars, filterVars, storedFilters, loadVars, envVars>>

UpdateUrlWithFilters(f, defaults) ==
  /\ routeQuery' = updateUrlWithFilters(f, defaults)
  /\ ev' = [Event("updateUrlWithFilters") EXCEPT
              !.arg = [filters |-> f, defaultFilters |-> defaults,
                       query |-> routeQuery]]
  /\ UNCHANGED <<aptVars, filterVars, storedFilters, loadVars, view, now, cacheVars>>

ClearUrlFilters ==
  /\ routeQuery' = <<>>
  /\ ev' = [Event("clearUrlFilters") EXCEPT !.arg = routeQuery]
  /\ UNCHANGED <<aptVars, filterVars, storedFilters, loadVars, view, now, cacheVars>>

(***************************************************************************)
(* Specification of the URL synchronisation.                               *)
(***************************************************************************)
\* filter sets a store initialised with the dataset's metadata can hold
UrlFilterSetArgs ==
  {[priceRange |-> p, areaRange |-> a, rooms |-> r, floors |-> fl] :
     p \in {<<0, 100000000>>, <<0, 0>>, <<5000000, 10000000>>},
     a \in {<<10, 10000>>, <<255, 1500>>},
     r \in {<<>>, <<2>>, <<3, 2>>, <<2, 2>>},
     fl \in {<<1, 50>>, <<1, 1>>, <<5, 50>>}}

\* the defaults the store-to-URL mirror derives from the metadata
UrlDefaultsArgs ==
  {[priceRange |-> m.priceRange, areaRange |-> m.areaRange,
    rooms |-> <<>>, floors |-> m.floorsRange] : m \in MetadataArgs}

QueryArgs ==
  {<<>>,
   <<Param("utm", <<"x">>)>>,
   <<Param("utm", <<"x">>), Param("priceMin", <<"5">>), Param("priceMax", <<"9">>)>>,
   <<Param("priceMin", <<"5">>), Param("priceMax", <<"9">>)>>,
   <<Param("priceMin", <<"9">>), Param("priceMax", <<"5">>)>>,
   <<Param("priceMin", <<"5">>)>>,
   <<Param("priceMin", <<>>), Param("priceMax", <<"9">>)>>,
   <<Param("priceMin", <<"a", "b">>), Param("priceMax", <<"9">>)>>,
   <<Param("priceMin", <<"5">>), Param("priceMin", <<"6">>), Param("priceMax", <<"9">>)>>,
   <<Param("areaMin", <<"2", "5", ".", "5">>), Param("areaMax", <<"4", "0">>)>>,
   <<Param("areaMin", <<"-", "1">>), Param("areaMax", <<"4", "0">>),
     Param("floorMin", <<"3">>), Param("floorMax", <<"3">>)>>,
   <<Param("floorMin", <<"3">>), Param("floorMax", <<"2", "x">>), Param("rooms", <<"2">>)>>,
   <<Param("rooms", <<"3">>), Param("rooms", <<"0">>), Param("rooms", <<"x">>),
     Param("rooms", <<"1">>)>>,
   <<Param("rooms", <<"0">>)>>,
   <<Param("rooms", <<>>)>>,
   <<Param("rooms", <<"-", "2">>), Param("rooms", <<>>)>>}

NextUrl ==
  \/ \E query \in QueryArgs : Navigate(query)
  \/ ParseFiltersFromUrl
  \/ \E f \in UrlFilterSetArgs, d \in UrlDefaultsArgs : UpdateUrlWithFilters(f, d)
  \/ ClearUrlFilters

SpecUrl == Init /\ [][NextUrl]_vars

(***************************************************************************)
(* Validation rules and pure validators (types/constants).  Areas, and the *)
(* area rules, are in tenths of a square metre.                            *)
(***************************************************************************)
DEFAULT_VALIDATION_RULES ==
  [priceRange |-> [min |-> 0, max |-> 100000000],
   areaRange |-> [min |-> 10, max |-> 10000],
   rooms |-> [available |-> <<1, 2, 3, 4>>],
   floors |-> [min |-> 1, max |-> 50]]

\* the three checks of one range: the codes pushed, in order
RangeCodes(range, rule, minCode, maxCode, rangeCode) ==
  (IF range[1] < rule.min THEN <<minCode>> ELSE <<>>)
  \o (IF range[2] > rule.max THEN <<maxCode>> ELSE <<>>)
  \o (IF range[1] > range[2] THEN <<rangeCode>> ELSE <<>>)

\* validateFilterParams accepting every floor range
validateFilterParams_NoFloors(f, rules) ==
  LET Invalid(room) == ~Includes(rules.rooms.available, room)
      invalidRooms == SelectSeq(f.rooms, Invalid)
      errors ==
        RangeCodes(f.priceRange, rules.priceRange,
                   "PRICE_MIN_INVALID", "PRICE_MAX_INVALID", "PRICE_RANGE_INVALID")
        \o RangeCodes(f.areaRange, rules.areaRange,
                      "AREA_MIN_INVALID", "AREA_MAX_INVALID", "AREA_RANGE_INVALID")
        \o (IF Len(invalidRooms) > 0 THEN <<"ROOMS_INVALID">> ELSE <<>>)
  IN [isValid |-> Len(errors) = 0, errors |-> errors]

\* the result, each error held as its code
validateFilterParams(f, rules) ==
  LET Invalid(room) == ~Includes(rules.rooms.available, room)
      invalidRooms == SelectSeq(f.rooms, Invalid)
      errors ==
        RangeCodes(f.priceRange, rules.priceRange,
                   "PRICE_MIN_INVALID", "PRICE_MAX_INVALID", "PRICE_RANGE_INVALID")
        \o RangeCodes(f.areaRange, rules.areaRange,
                      "AREA_MIN_INVALID", "AREA_MAX_INVALID", "AREA_RANGE_INVALID")
        \o (IF Len(invalidRooms) > 0 THEN <<"ROOMS_INVALID">> ELSE <<>>)
        \o RangeCodes(f.floors, rules.floors,
                      "FLOOR_MIN_INVALID", "FLOOR_MAX_INVALID", "FLOOR_RANGE_INVALID")
  IN [isValid |-> Len(errors) = 0, errors |-> errors]

\* [Math.max(lo, range?.[0] ?? lo), Math.min(hi, range?.[1] ?? hi)]
SanitizeRange(f, field, lo, hi) ==
  IF field \in DOMAIN f
  THEN <<IF f[field][1] > lo THEN f[field][1] ELSE lo,
         IF f[field][2] < hi THEN f[field][2] ELSE hi>>
  ELSE <<lo, hi>>

\* sanitizeFilterParams of a filter set that may lack dimensions
sanitizeFilterParams(f) ==
  LET Available(room) == Includes(DEFAULT_VALIDATION_RULES.rooms.available, room)
  IN [priceRange |-> SanitizeRange(f, "priceRange", 0, 100000000),
      areaRange |-> SanitizeRange(f, "areaRange", 10, 10000),
      rooms |-> IF "rooms" \in DOMAIN f THEN SelectSeq(f.rooms, Available) ELSE <<>>,
      floors |-> SanitizeRange(f, "floors", 1, 50)]

ValidateFilterParams(f, rules) ==
  /\ ev' = [Event("validateFilterParams") EXCEPT
              !.arg = [filters |-> f, rules |-> rules],
              !.result = validateFilterParams(f, rules)]
  /\ UNCHANGED <<aptVars, filterVars, storedFilters, loadVars, envVars>>

SanitizeFilterParams(f) ==
  /\ ev' = [Event("sanitizeFilterParams") EXCEPT
              !.arg = f, !.result = sanitizeFilterParams(f)]
  /\ UNCHANGED <<aptVars, filterVars, storedFilters, loadVars, envVars>>

(***************************************************************************)
(* Specification of the pure functions: the validators and the cache key.  *)
(***************************************************************************)
ValidateFilterArgs ==
  {[priceRange |-> p, areaRange |-> a, rooms |-> r, floors |-> fl] :
     p \in {<<0, 100000000>>, <<3200000, 25000000>>, <<-1, 100000000>>,
            <<0, 100000001>>, <<10000000, 5000000>>, <<-5, -10>>},
     a \in {<<10, 10000>>, <<255, 1500>>, <<1500, 255>>},
     r \in {<<>>, <<2>>, <<4>>, <<2, 5>>},
     fl \in {<<1, 50>>, <<1, 20>>, <<20, 1>>, <<0, 51>>}}

SanitizeFilterArgs ==
  {[priceRange |-> p, areaRange |-> a, rooms |-> r, floors |-> fl] :
     p \in {<<0, 100000000>>, <<-1, 100000001>>, <<200000000, 300000000>>},
     a \in {<<255, 1500>>, <<0, 20000>>},
     r \in {<<>>, <<2, 5>>},
     fl \in {<<1, 50>>, <<0, 51>>, <<-3, -2>>}}
  \cup {<<>>, [rooms |-> <<0, 1, 7>>], [priceRange |-> <<5000000, 10000000>>]}

\* the default rules and rules derived from a narrower metadata
RuleArgs ==
  {DEFAULT_VALIDATION_RULES,
   [priceRange |-> [min |-> 3200000, max |-> 25000000],
    areaRange |-> [min |-> 255, max |-> 1500],
    rooms |-> [available |-> <<1, 2, 3>>],
    floors |-> [min |-> 1, max |-> 20]]}

NextPure ==
  \/ \E f \in ValidateFilterArgs, rules \in RuleArgs : ValidateFilterParams(f, rules)
  \/ \E f \in SanitizeFilterArgs : SanitizeFilterParams(f)
  \/ \E r1, r2 \in RequestArgs : GenerateCacheKey(r1, r2)

SpecPure == Init /\ [][NextPure]_vars

(***************************************************************************)
(* The listing page (components/ApartmentsList.vue) with the debounce      *)
(* pipeline of useFilters.  view holds the page's own state:               *)
(*   mounted          onMounted has run                                     *)
(*   initialLoading   the ref of that name                                  *)
(*   skipFirst        which copy of useFilters the build resolved: the one  *)
(*                    in useApiCache.ts, whose timer callback skips the      *)
(*                    first change, or the one in useFilters.ts              *)
(*   debounceTimer    the handle is non-null; it then names the timer       *)
(*                    created last                                          *)
(*   timers           milliseconds left of the pending timers, oldest first *)
(*   previousFilters  null or [text |-> the JSON snapshot]                   *)
(*   routeChanged     route.query changed and the route watchers have not   *)
(*                    run yet                                               *)
(* and three history fields: quiet (milliseconds since the last write of   *)
(* the filters, capped at the delay), userFilters (the filters the last    *)
(* user mutation left) and urlApplies / applies (URL-driven                *)
(* applyUrlFilters calls and debounced applyFilters calls since then).     *)
(* A watcher runs in the flush that follows the write it watches, so it is *)
(* part of the step that makes the write.                                  *)
(***************************************************************************)
DebounceDelay == 300

\* JSON.stringify(filterStore.filters); each key with its quotes and colon is
\* one element, the numbers are spelled out
JsonFilters(f) ==
  LET JsonRange(a, b, key) == <<key, "[">> \o a \o <<",">> \o b \o <<"]">>
  IN <<"{">>
     \o JsonRange(NumberToString(f.priceRange[1]), NumberToString(f.priceRange[2]),
                  "\"priceRange\":")
     \o <<",">>
     \o JsonRange(AreaToString(f.areaRange[1]), AreaToString(f.areaRange[2]),
                  "\"areaRange\":")
     \o <<",", "\"rooms\":", "[">> \o JoinComma(f.rooms) \o <<"]", ",">>
     \o JsonRange(NumberToString(f.floors[1]), NumberToString(f.floors[2]),
                  "\"floors\":")
     \o <<"}">>

\* The two deep watchers of the filters after a write that left store state S:
\* the debounce watcher clears the timer the handle names and starts a new one;
\* the mirror, once metadata is there, replaces the route's query, and the
\* route changes unless the navigation is a duplicate.
\* WatchFilters with the route watchers run after every write of the mirror,
\* a duplicate navigation included
WatchFilters_DuplicateNavigationFires(V, query, S) ==
  LET kept == IF V.debounceTimer /\ V.timers # <<>>
              THEN SubSeq(V.timers, 1, Len(V.timers) - 1) ELSE V.timers
      mirrored == IF S.metadata # NullObject
                  THEN updateUrlWithFilters(S.filters, defaultFilters(S.metadata))
                  ELSE query
  IN [view |-> [V EXCEPT !.timers = Append(kept, DebounceDelay),
                         !.debounceTimer = TRUE,
                         !.quiet = 0,
                         !.routeChanged = @ \/ S.metadata # NullObject],
      query |-> mirrored]

WatchFilters(V, query, S) ==
  LET kept == IF V.debounceTimer /\ V.timers # <<>>
              THEN SubSeq(V.timers, 1, Len(V.timers) - 1) ELSE V.timers
      mirrored == IF S.metadata # NullObject
                  THEN updateUrlWithFilters(S.filters, defaultFilters(S.metadata))
                  ELSE query
  IN [view |-> [V EXCEPT !.timers = Append(kept, DebounceDelay),
                         !.debounceTimer = TRUE,
                         !.quiet = 0,
                         !.routeChanged = @ \/ mirrored # query],
      query |-> mirrored]

\* onMounted up to its await: the bootstrap load
Mounted ==
  /\ ~view.mounted
  /\ StartLoad(NewCall("onMounted", Undefined, TRUE, pagination.page, pagination.page))
  /\ view' = [view EXCEPT !.mounted = TRUE]
  /\ ev' = Event("mounted")
  /\ UNCHANGED <<filterVars, storedFilters, now, cacheVars, routeQuery>>

\* handleRetry, offered while an error is shown
HandleRetry ==
  /\ view.mounted /\ ~view.routeChanged
  /\ error # NULL /\ ~loading
  /\ Pending < MaxInFlight
  /\ StartLoad(NewCall("handleRetry",
                       IF fMetadata # NullObject /\ hasActiveFilters(filters, fMetadata)
                       THEN filters ELSE Undefined,
                       TRUE, pagination.page, pagination.page))
  /\ ev' = Event("handleRetry")
  /\ UNCHANGED <<filterVars, storedFilters, envVars>>

(* The fetch of load c resolves or rejects.  loadApartments finishes; when  *)
(* the response brings the first metadata, watch(apartmentMetadata)         *)
(* initializes the filter store and, on nextTick, applies the URL filters   *)
(* parsed from the route; the caller then continues: onMounted clears       *)
(* initialLoading, applyFilters clears the filter store's loading flag and  *)
(* the timer callback that awaited it sets the handle to null.              *)
(* Only the bootstrap loads (onMounted, handleRetry) are let fail here: a   *)
(* failed debounced load differs from a successful one in the list store   *)
(* alone, which Spec and SpecApply cover.                                   *)
PageSettle(c, ok) ==
  LET response == ApartmentsApi(c.params)
      arrives == ok /\ fMetadata = NullObject
      V1 == [view EXCEPT
               !.initialLoading = IF c.caller = "onMounted" THEN FALSE ELSE @,
               !.debounceTimer = IF c.caller = "applyFilters" THEN FALSE ELSE @]
  IN /\ ~view.routeChanged
     /\ ok \/ c.caller # "applyFilters"
     /\ FinishLoad(c, ok, response)
     /\ \E urlFilters \in {parseFiltersFromUrl(routeQuery)} :
        \E S1 \in {IF arrives THEN initializeFilters(FilterStore, response.meta.filters)
                   ELSE FilterStore} :
        \E S2 \in {IF arrives /\ urlFilters # NullObject
                   THEN applyUrlFilters(S1, urlFilters) ELSE S1} :
        \E W \in {IF arrives THEN WatchFilters(V1, routeQuery, S2)
                  ELSE [view |-> V1, query |-> routeQuery]} :
          /\ Len(W.view.timers) <= MaxTimers
          /\ SetFilterStore(IF c.caller = "applyFilters"
                            THEN [S2 EXCEPT !.loading = FALSE] ELSE S2)
          /\ view' = W.view
          /\ routeQuery' = W.query
          /\ ev' = [Event("settle") EXCEPT
                      !.call = c, !.ok = ok,
                      !.arg = [initialized |-> arrives,
                               fromUrl |-> arrives /\ urlFilters # NullObject,
                               urlFilters |-> urlFilters]]
     /\ UNCHANGED <<now, cacheVars>>

\* handleFilterChange with the filters the panel emitted
HandleFilterChange(newFilters) ==
  LET S == handleFilterChange(FilterStore, newFilters)
      W == WatchFilters(view, routeQuery, S)
  IN /\ fMetadata # NullObject /\ ~view.routeChanged
     /\ Len(W.view.timers) <= MaxTimers
     /\ SetFilterStore(S)
     /\ error' = NULL
     /\ view' = [W.view EXCEPT !.userFilters = S.filters,
                               !.urlApplies = 0, !.applies = 0]
     /\ routeQuery' = W.query
     /\ ev' = [Event("handleFilterChange") EXCEPT !.arg = newFilters]
     /\ UNCHANGED <<apartments, loading, pagination, hasMore, metadata, loadVars,
                    now, cacheVars>>

\* handleResetFilters: resetFilters, clearApartmentsError, clearUrlFilters
HandleResetFilters ==
  LET S == resetFilters(FilterStore)
      W == WatchFilters(view, routeQuery, S)
  IN /\ fMetadata # NullObject /\ ~view.routeChanged
     /\ Len(W.view.timers) <= MaxTimers
     /\ SetFilterStore(S)
     /\ error' = NULL
     /\ view' = [W.view EXCEPT !.userFilters = S.filters,
                               !.urlApplies = 0, !.applies = 0,
                               !.routeChanged = routeQuery # <<>>]
     /\ routeQuery' = <<>>
     /\ ev' = Event("handleResetFilters")
     /\ UNCHANGED <<apartments, loading, pagination, hasMore, metadata, loadVars,
                    now, cacheVars>>

\* the route watcher: watchUrlFilters parses the new query and the page's
\* callback applies it to the store
RouteChanged ==
  /\ view.routeChanged
  /\ \E urlFilters \in {parseFiltersFromUrl(routeQuery)} :
     \E applies \in {/\ urlFilters # NullObject /\ fMetadata # NullObject
                     /\ ~view.initialLoading} :
     \E S \in {IF applies THEN applyUrlFilters(FilterStore, urlFilters)
               ELSE FilterStore} :
     \E V \in {[view EXCEPT
                  !.routeChanged = FALSE,
                  !.urlApplies = IF applies /\ @ < MaxTimers + 1 THEN @ + 1 ELSE @]} :
     \E W \in {IF applies THEN WatchFilters(V, routeQuery, S)
               ELSE [view |-> V, query |-> routeQuery]} :
       /\ Len(W.view.timers) <= MaxTimers
       /\ SetFilterStore(S)
       /\ view' = W.view
       /\ routeQuery' = W.query
       /\ ev' = [Event("routeChanged") EXCEPT !.started = applies]
  /\ UNCHANGED <<aptVars, loadVars, now, cacheVars>>

(* The oldest timer is due and its callback runs: the first-change skip of  *)
(* the useApiCache.ts copy, then the comparison with the snapshot and       *)
(* applyFilters up to its await (validation, then the reset load), or, when *)
(* nothing is awaited, the handle set to null at once.                      *)
TimerFires ==
  LET currentFiltersString == [text |-> JsonFilters(filters)]
      skips == view.skipFirst /\ view.previousFilters = NullObject
      calls == ~skips /\ currentFiltersString # view.previousFilters
      S0 == [FilterStore EXCEPT !.loading = TRUE, !.error = NULL]
      validation == validateAllFilters(S0)
      fetches == calls /\ validation.isValid
      c == NewCall("applyFilters",
                   IF hasActiveFilters(filters, fMetadata) THEN filters ELSE Undefined,
                   TRUE, pagination.page, pagination.page)
  IN /\ view.timers # <<>> /\ Head(view.timers) = 0
     /\ ~view.routeChanged
     /\ view' = [view EXCEPT
                   !.timers = Tail(@),
                   !.previousFilters = IF skips \/ calls THEN currentFiltersString ELSE @,
                   !.debounceTimer = IF fetches THEN @ ELSE FALSE,
                   !.applies = IF calls /\ @ < MaxTimers + 1 THEN @ + 1 ELSE @]
     /\ IF fetches
        THEN /\ Pending < MaxInFlight
             /\ StartLoad(c)
             /\ SetFilterStore(validation.S)
        ELSE /\ SetFilterStore(IF calls
                               THEN [validation.S EXCEPT
                                       !.error = JoinMessages(validation.errors),
                                       !.loading = FALSE]
                               ELSE FilterStore)
             /\ UNCHANGED <<aptVars, loadVars>>
     /\ ev' = [Event("timer") EXCEPT
                 !.started = calls,
                 !.arg = [quiet |-> view.quiet, snapshot |-> view.previousFilters,
                          fetches |-> fetches]]
     /\ UNCHANGED <<now, cacheVars, routeQuery>>

\* half a debounce delay passes while no timer is due
PageTick ==
  LET step == DebounceDelay \div 2
  IN /\ view.timers # <<>> /\ ~view.routeChanged
     /\ \A i \in 1..Len(view.timers) : view.timers[i] > 0
     /\ view' = [view EXCEPT
                   !.timers = [i \in 1..Len(@) |-> @[i] - step],
                   !.quiet = IF @ + step > DebounceDelay THEN DebounceDelay ELSE @ + step]
     /\ ev' = Event("tick")
     /\ UNCHANGED <<aptVars, filterVars, storedFilters, loadVars, now, cacheVars,
                    routeQuery>>

\* The page is opened with or without persisted filters (price 5,000,000 to
\* 10,000,000) and with or without filter parameters in the URL (?rooms=2).
InitPage ==
  /\ apartments = <<>>
  /\ loading = FALSE
  /\ error = NULL
  /\ pagination = [page |-> 1, limit |-> 20, total |-> 0]
  /\ hasMore = TRUE
  /\ metadata = NullObject
  /\ filters = InitialFilters
  /\ fMetadata = NullObject
  /\ fLoading = FALSE
  /\ fError = NULL
  /\ isActive = FALSE
  /\ storedFilters \in
       {NullObject,
        [priceRange |-> <<5000000, 10000000>>, areaRange |-> <<10, 10000>>,
         rooms |-> <<>>, floors |-> <<1, 50>>, timestamp |-> 0]}
  /\ now = 0
  /\ inflight = EmptyBag
  /\ lastReset = NullObject
  /\ memoryCache = <<>>
  /\ cacheStorage = <<>>
  /\ cachePending = {}
  /\ routeQuery \in {<<>>, <<Param("rooms", <<"2">>)>>}
  /\ \E skipFirst \in BOOLEAN :
       view = [mounted |-> FALSE, initialLoading |-> TRUE, skipFirst |-> skipFirst,
               debounceTimer |-> FALSE, timers |-> <<>>,
               previousFilters |-> NullObject, routeChanged |-> FALSE,
               quiet |-> DebounceDelay, userFilters |-> NullObject,
               urlApplies |-> 0, applies |-> 0]
  /\ ev = Event("init")

\* filters the panel emits: a price range, and two rooms in the order they
\* were clicked (the panel pushes each toggled room at the end of its list)
PanelFilters ==
  (FilterArgs \ {Undefined})
    \cup {[priceRange |-> <<0, 100000000>>, areaRange |-> <<10, 10000>>,
           rooms |-> <<3, 1>>, floors |-> <<1, 50>>]}

NextPage ==
  \/ Mounted
  \/ HandleRetry
  \/ \E c \in BagToSet(inflight), ok \in BOOLEAN : PageSettle(c, ok)
  \/ \E f \in PanelFilters : HandleFilterChange(f)
  \/ HandleResetFilters
  \/ RouteChanged
  \/ TimerFires
  \/ PageTick

SpecPage == InitPage /\ [][NextPage]_vars

(***************************************************************************)
(* Properties of the apartment list store (specification Spec).            *)
(***************************************************************************)

\* C1: once a loadMore() whose fetch failed has settled, pagination.page is
\* what it was before the call.
C1_FailedLoadMoreRestoresPage ==
  (ev.op = "settle" /\ ~ev.ok /\ ev.call.caller = "loadMore")
    => pagination.page = ev.call.pageBefore

C3_SuccessMergesResponse ==
  [][(ev'.op = "settle" /\ ev'.ok)
       => LET c == ev'.call
              response == ApartmentsApi(c.params)
          IN /\ apartments' = IF c.reset THEN response.apartments
                              ELSE apartments \o response.apartments
             /\ pagination'.total = response.meta.total
             /\ hasMore' = (Len(apartments') < pagination'.total)
             /\ (c.reset /\ c.filters = Undefined /\ c.limit = 20)
                  => /\ apartments' = [i \in 1..20 |-> i]
                     /\ pagination'.total = 25
                     /\ hasMore' = TRUE
             /\ (c.caller = "loadMore" /\ c.page = 2 /\ c.limit = 20
                   /\ apartments = [i \in 1..20 |-> i])
                  => /\ apartments' = [i \in 1..25 |-> i]
                     /\ hasMore' = FALSE]_vars

C3_Witness ==
  /\ ev.op = "settle" /\ ev.ok /\ ev.call.caller = "loadMore"
  /\ ev.call.page = 2 /\ ev.call.limit = 20
  /\ apartments = [i \in 1..25 |-> i]
  /\ pagination.total = 25
  /\ ~hasMore

\* C4: loadMore() does nothing (no page change, no request) whenever hasMore is
\* false or some load is still in flight.
C4_LoadMoreIdleWhileAnyLoadInFlight ==
  (ev.op = "loadMore" /\ (~ev.hadMore \/ ev.pending > 0)) => ~ev.started

C27_LoadMoreContinuesFilteredQuery ==
  /\ (ev.op = "loadMore" /\ ev.started /\ lastReset # NullObject)
       => \E c \in BagToSet(inflight) :
            /\ c.caller = "loadMore" /\ c.page = pagination.page
            /\ c.filters = lastReset
  /\ (ev.op = "settle" /\ ev.ok /\ ev.call.caller = "loadMore"
        /\ ev.call.page = pagination.page /\ lastReset # NullObject)
       => LET query == BuildParams(1, ev.call.limit, lastReset)
          IN /\ \A i \in 1..Len(apartments) :
                  ServerMatches(Apartment(apartments[i]), ServerFilters(query))
             /\ pagination.total = ApartmentsApi(query).meta.total

\* C28: once every request has settled, whatever the order in which a
\* loadMore() fetch, reset loads and their responses interleaved, the list
\* holds only apartments of pages 1..pagination.page of the most recently
\* issued reset request, no apartment appears twice and
\* apartments.length <= pagination.total.
C28_SettledListIsPagesOfLastReset ==
  (Pending = 0 /\ lastReset # NullObject)
    => /\ LET pages == ApartmentsApi(BuildParams(1, pagination.page * pagination.limit,
                                                 lastReset)).apartments
          IN \A i \in 1..Len(apartments) :
               \E j \in 1..Len(pages) : pages[j] = apartments[i]
       /\ \A i, j \in 1..Len(apartments) : apartments[i] = apartments[j] => i = j
       /\ Len(apartments) <= pagination.total

(***************************************************************************)
(* Properties of the filter store and the panel (specification SpecFilter).*)
(***************************************************************************)

C6_RangeSettersRejectWithError ==
  [][LET Within(range, metaField) ==
           /\ fMetadata # NullObject
           /\ fMetadata[metaField][1] <= range[1]
           /\ range[1] <= range[2]
           /\ range[2] <= fMetadata[metaField][2]
         Post(field, metaField, range) ==
           IF Within(range, metaField)
           THEN /\ filters' = [filters EXCEPT ![field] = range]
                /\ fError' = NULL
                /\ storedFilters' # NullObject
                /\ \A k \in DOMAIN filters : storedFilters'[k] = filters'[k]
           ELSE /\ fError' # NULL
                /\ filters' = filters
                /\ isActive' = isActive
                /\ storedFilters' = storedFilters
     IN /\ \A r \in PriceRangeArgs :
             UpdatePriceRange(r) => Post("priceRange", "priceRange", r)
        /\ \A r \in AreaRangeArgs :
             UpdateAreaRange(r) => Post("areaRange", "areaRange", r)
        /\ \A r \in FloorsRangeArgs :
             UpdateFloorsRange(r) => Post("floors", "floorsRange", r)]_vars

\* C7: updateRooms(rooms) and toggleRoom(n) reject, with an error message and
\* with filters.rooms and the persisted filters unchanged, a call that would
\* put a room count outside metadata.roomsAvailable into filters.rooms, so
\* filters.rooms stays a subset of roomsAvailable under the setters.
C7_RoomSettersValidateBeforeWrite ==
  [][LET Available(n) == Includes(fMetadata.roomsAvailable, n)
         Rejected == /\ fError' # NULL
                     /\ filters'.rooms = filters.rooms
                     /\ storedFilters' = storedFilters
     IN /\ \A n \in ToggleArgs :
             (/\ ToggleRoom(n)
              /\ fMetadata # NullObject
              /\ ~Available(n)
              /\ ~Includes(filters.rooms, n)) => Rejected
        /\ \A rooms \in RoomsArgs :
             (/\ UpdateRooms(rooms)
              /\ fMetadata # NullObject
              /\ \E i \in 1..Len(rooms) : ~Available(rooms[i])) => Rejected
        /\ (/\ ev'.op \in {"toggleRoom", "updateRooms"}
            /\ fMetadata # NullObject
            /\ \A i \in 1..Len(filters.rooms) : Available(filters.rooms[i]))
             => \A i \in 1..Len(filters'.rooms) : Available(filters'.rooms[i])]_vars

\* C10: resetFilters() with metadata set leaves filters at the metadata's full
\* ranges with no rooms, isActive false, error null and nothing persisted; a
\* second call changes nothing more; with metadata absent it changes nothing.
C10_ResetRestoresDefaults ==
  [][ResetFilters =>
       IF fMetadata = NullObject
       THEN UNCHANGED <<filterVars, storedFilters>>
       ELSE /\ filters' = [priceRange |-> fMetadata.priceRange,
                           areaRange |-> fMetadata.areaRange,
                           rooms |-> <<>>,
                           floors |-> fMetadata.floorsRange]
            /\ isActive' = FALSE
            /\ fError' = NULL
            /\ storedFilters' = NullObject
            /\ UNCHANGED <<fMetadata, fLoading>>
            /\ resetFilters(resetFilters(FilterStore)) = resetFilters(FilterStore)
            /\ ev.op = "resetFilters" => UNCHANGED <<filterVars, storedFilters>>]_vars

C10_Witness ==
  /\ ev.op = "resetFilters"
  /\ fMetadata # NullObject
  /\ filters = [priceRange |-> <<0, 100000000>>, areaRange |-> <<10, 10000>>,
                rooms |-> <<>>, floors |-> <<1, 50>>]
  /\ ~isActive
  /\ fError = NULL
  /\ storedFilters = NullObject

\* C11: toggleRoom(n) removes n from filters.rooms if it is present and adds it
\* otherwise, keeps the other rooms and leaves filters.rooms sorted ascending;
\* from no rooms, toggleRoom(2), toggleRoom(3), toggleRoom(2) leaves rooms = [3].
C11_ToggleRoomTogglesMembership ==
  [][\A n \in ToggleArgs :
       ToggleRoom(n) =>
         LET before == filters.rooms
             after == filters'.rooms
         IN /\ Includes(after, n) <=> ~Includes(before, n)
            /\ \A x \in 1..5 : x # n => (Includes(after, x) <=> Includes(before, x))
            /\ \A i \in 1..(Len(after) - 1) : after[i] <= after[i + 1]
            /\ before = <<>> =>
                 toggleRoom(toggleRoom(toggleRoom(FilterStore, 2), 3), 2).filters.rooms
                   = <<3>>]_vars


(***************************************************************************)
(* Properties of the apply pipeline (specification SpecApply).             *)
(***************************************************************************)

\* C8: applyFilters() on a filter set that fails validation (a range out of
\* bounds or inverted, a disallowed room, or metadata missing) starts no load
\* of the list store and no request, sets the filter store's error to the
\* comma-joined messages of the failing dimensions and leaves loading false.
C8_InvalidApplyIssuesNoRequest ==
  [][LET m == fMetadata
         Within(range, metaRange) ==
           metaRange[1] <= range[1] /\ range[1] <= range[2] /\ range[2] <= metaRange[2]
         Disallowed(room) == ~Includes(m.roomsAvailable, room)
         disallowed == SelectSeq(filters.rooms, Disallowed)
         valid == /\ m # NullObject
                  /\ Within(filters.priceRange, m.priceRange)
                  /\ Within(filters.areaRange, m.areaRange)
                  /\ disallowed = <<>>
                  /\ Within(filters.floors, m.floorsRange)
         messages ==
           (IF Within(filters.priceRange, m.priceRange) THEN <<>> ELSE <<PriceMessage(m)>>)
           \o (IF Within(filters.areaRange, m.areaRange) THEN <<>> ELSE <<AreaMessage(m)>>)
           \o (IF disallowed = <<>> THEN <<>> ELSE <<RoomsMessage(disallowed)>>)
           \o (IF Within(filters.floors, m.floorsRange) THEN <<>> ELSE <<FloorsMessage(m)>>)
         expected ==
           IF m = NullObject
           THEN "Invalid price range, Invalid area range, Invalid rooms selection, Invalid floors range"
           ELSE JoinMessages(messages)
     IN (ev'.op = "applyFilters" /\ ~valid)
          => /\ ~ev'.started
             /\ inflight' = inflight
             /\ UNCHANGED aptVars
             /\ fError' = expected
             /\ fLoading' = FALSE]_vars

C8_Witness ==
  /\ ev.op = "applyFilters" /\ ~ev.started
  /\ fMetadata # NullObject
  /\ filters.rooms = <<2, 3, 5>>
  /\ fError = "Unavailable room options: 5"
  /\ ~fLoading

\* C9: applyFilters() on a valid filter set loads the list with the filter
\* object iff some filter is active and with undefined otherwise; the request
\* has page=1, carries the current bounds (price 5000000..10000000 gives
\* priceMin=5000000 and priceMax=10000000) and has a rooms parameter iff
\* filters.rooms is non-empty, as one comma-joined value.
C9_ValidApplyRequest ==
  (ev.op = "applyFilters" /\ ev.started) =>
    LET c == ev.call
        p == c.params
        m == fMetadata
        active == \/ filters.priceRange # m.priceRange
                  \/ filters.areaRange # m.areaRange
                  \/ filters.rooms # <<>>
                  \/ filters.floors # m.floorsRange
        Count(k) == Cardinality({i \in 1..Len(p) : p[i].key = k})
    IN /\ c.reset
       /\ c.filters = IF active THEN filters ELSE Undefined
       /\ GetParam(p, "page") = <<"1">>
       /\ active => /\ parseInt(GetParam(p, "priceMin")) = filters.priceRange[1]
                    /\ parseInt(GetParam(p, "priceMax")) = filters.priceRange[2]
                    /\ parseFloat(GetParam(p, "areaMin")) = filters.areaRange[1]
                    /\ parseFloat(GetParam(p, "areaMax")) = filters.areaRange[2]
                    /\ parseInt(GetParam(p, "floorMin")) = filters.floors[1]
                    /\ parseInt(GetParam(p, "floorMax")) = filters.floors[2]
       /\ ~active => Len(p) = 2
       /\ filters.priceRange = <<5000000, 10000000>>
            => /\ GetParam(p, "priceMin") = <<"5", "0", "0", "0", "0", "0", "0">>
               /\ GetParam(p, "priceMax") = <<"1", "0", "0", "0", "0", "0", "0", "0">>
       /\ HasParam(p, "rooms") <=> filters.rooms # <<>>
       /\ Count("rooms") <= 1
       /\ filters.rooms = <<2, 3>> => GetParam(p, "rooms") = <<"2", ",", "3">>

C9_Witness ==
  /\ ev.op = "applyFilters" /\ ev.started
  /\ filters.priceRange = <<5000000, 10000000>>
  /\ filters.rooms = <<>>
  /\ GetParam(ev.call.params, "priceMin") = <<"5", "0", "0", "0", "0", "0", "0">>
  /\ GetParam(ev.call.params, "priceMax") = <<"1", "0", "0", "0", "0", "0", "0", "0">>
  /\ ~HasParam(ev.call.params, "rooms")

C12_FailedFetchFallsBackToStale ==
  [][(ev'.op = "cachedFetchSettle" /\ ~ev'.ok) =>
       LET key == ev'.call.key
       IN IF key \in DOMAIN memoryCache
          THEN /\ ~ev'.threw
               /\ ev'.result = [data |-> memoryCache[key].data]
          ELSE /\ ev'.threw
               /\ ev'.result = NullObject]_vars

\* a failed fetch has returned the data of an entry that had expired
C12_Witness ==
  /\ ev.op = "cachedFetchSettle"
  /\ ~ev.ok
  /\ ~ev.threw
  /\ ev.call.key \in DOMAIN memoryCache
  /\ ~isCacheValid(memoryCache[ev.call.key])
  /\ ev.result = [data |-> memoryCache[ev.call.key].data]

\* C13: setCache(key, data, {ttl}) at time t stores an entry stamped t, and
\* getFromCache(key) on the in-memory table returns its data at every time now
\* with now - t < ttl and null at every time with now - t >= ttl; with ttl 100
\* the data is returned 50 ms after the write and null 100 and 150 ms after it.
C13_EntryValidUntilTtl ==
  [][/\ ev'.op = "setCache" =>
          memoryCache'[ev'.arg.key] =
            [data |-> ev'.arg.data, timestamp |-> now, ttl |-> ev'.arg.ttl]
     /\ (/\ ev'.op = "getFromCache"
         /\ ~ev'.arg.useLocalStorage
         /\ ev'.arg.key \in DOMAIN memoryCache) =>
          LET entry == memoryCache[ev'.arg.key]
              age == now - entry.timestamp
          IN /\ age < entry.ttl => ev'.result = [data |-> entry.data]
             /\ age >= entry.ttl => ev'.result = NullObject
             /\ (entry.ttl = 100 /\ age = 50) => ev'.result = [data |-> entry.data]
             /\ (entry.ttl = 100 /\ age \in {100, 150}) => ev'.result = NullObject]_vars

\* getFromCache has returned null for an entry exactly as old as its ttl
C13_Witness ==
  /\ ev.op = "getFromCache"
  /\ ~ev.arg.useLocalStorage
  /\ ev.arg.key \in DOMAIN memoryCache
  /\ now - memoryCache[ev.arg.key].timestamp = memoryCache[ev.arg.key].ttl
  /\ ev.result = NullObject

\* C25: the in-memory table is shared by the loads of a page session: when a
\* load (a cachedFetch with the durable mirror on, taken from the load's own
\* useApiCache() call) asks for a request whose entry an earlier call stored
\* in the table and in the mirror, a valid entry is returned without network
\* access and an expired one is still in the table afterwards, ready to serve
\* as stale fallback if the network call fails.
C25_LoadsShareMemoryTable ==
  [][(/\ ev'.op = "cachedFetch" /\ ev'.arg.fresh /\ ev'.call.useLocalStorage
      /\ ev'.call.key \in DOMAIN memoryCache
      /\ ev'.call.key \in DOMAIN cacheStorage
      /\ cacheStorage[ev'.call.key] = memoryCache[ev'.call.key]
      /\ memoryCache[ev'.call.key].data # 0)
       => LET key == ev'.call.key
          IN /\ key \in DOMAIN memoryCache'
             /\ memoryCache'[key] = memoryCache[key]
             /\ isCacheValid(memoryCache[key])
                  => /\ ~ev'.started
                     /\ ev'.result = [data |-> memoryCache[key].data]]_vars

(***************************************************************************)
(* Properties of the cache key derivation (specification SpecPure).        *)
(***************************************************************************)

\* C14: the cache key depends on the endpoint and on the set of parameter
\* names and values only: two requests get the same key exactly when they have
\* the same endpoint and the same parameters, in whatever order the parameter
\* object's properties were inserted.
C14_KeyOfEndpointAndParameterSet ==
  ev.op = "generateCacheKey" =>
    LET r1 == ev.arg[1]
        r2 == ev.arg[2]
        SameParams ==
          IF r1.params = Undefined \/ r2.params = Undefined
          THEN r1.params = Undefined /\ r2.params = Undefined
          ELSE {r1.params[i] : i \in DOMAIN r1.params}
                 = {r2.params[i] : i \in DOMAIN r2.params}
    IN (r1.url = r2.url /\ SameParams) <=> (ev.result[1] = ev.result[2])

(***************************************************************************)
(* Properties of the URL synchronisation (specification SpecUrl).          *)
(***************************************************************************)

\* C15: parsing the query written by updateUrlWithFilters(filters, defaults)
\* gives exactly the dimensions of filters that differ from the defaults (a
\* range that differs in a bound, rooms when not empty) with their values (the
\* rooms, a set held in any order, in ascending order), and gives null when
\* filters equals the defaults.
C15_UrlRoundTrip ==
  ev.op = "updateUrlWithFilters" =>
    LET f == ev.arg.filters
        d == ev.arg.defaultFilters
        parsed == parseFiltersFromUrl(routeQuery)
        dims == {x \in {"priceRange", "areaRange", "floors"} : f[x] # d[x]}
                  \cup (IF f.rooms # <<>> THEN {"rooms"} ELSE {})
    IN /\ (f = d) => parsed = NullObject
       /\ IF dims = {} THEN parsed = NullObject
          ELSE /\ parsed # NullObject
               /\ DOMAIN parsed = dims
               /\ \A x \in dims \ {"rooms"} : parsed[x] = f[x]
               /\ "rooms" \in dims => parsed.rooms = SortAscending(f.rooms)

\* a fractional area and two rooms have made the round trip, the price and
\* the floors were the defaults and are absent
C15_Witness ==
  /\ ev.op = "updateUrlWithFilters"
  /\ ev.arg.filters.areaRange = <<255, 1500>>
  /\ ev.arg.filters.rooms = <<3, 2>>
  /\ ev.arg.filters.priceRange = ev.arg.defaultFilters.priceRange
  /\ ev.arg.filters.floors = ev.arg.defaultFilters.floors
  /\ parseFiltersFromUrl(routeQuery) =
       [areaRange |-> <<255, 1500>>, rooms |-> <<2, 3>>]

\* C16: a URL-sync write changes only the parameters priceMin, priceMax,
\* areaMin, areaMax, rooms, floorMin and floorMax: every other parameter of the
\* query before the write is in the query after it with the same value.
C16_UrlWriteKeepsOtherParameters ==
  [][ev'.op = "updateUrlWithFilters" =>
       \A i \in 1..Len(routeQuery) :
         routeQuery[i].key \notin {"priceMin", "priceMax", "areaMin", "areaMax",
                                   "rooms", "floorMin", "floorMax"}
           => \E j \in 1..Len(routeQuery') : routeQuery'[j] = routeQuery[i]]_vars

\* C17 as stated: a range is accepted iff both of its parameters are present,
\* both convert to numbers that are not NaN and min <= max; rooms are the
\* positive numbers among the values, ascending; the result is null iff none of
\* the seven parameters is present, and otherwise the object holding exactly
\* the accepted dimensions (an empty object when none was accepted).
C17_ParseAcceptsPresentAndValid ==
  ev.op = "parseFiltersFromUrl" =>
    LET query == ev.arg
        Present(k) == \E i \in 1..Len(query) : query[i].key = k
        Num(k, unit) == QueryNumber(query, k, unit)
        Accepted(minKey, maxKey, unit) ==
          /\ Present(minKey) /\ Present(maxKey)
          /\ Num(minKey, unit) # NaN /\ Num(maxKey, unit) # NaN
          /\ Num(minKey, unit) <= Num(maxKey, unit)
        values == QueryValues(query, "rooms")
        Positive(i) == Number(values[i], 1) # NaN /\ Number(values[i], 1) > 0
        dims == (IF Accepted("priceMin", "priceMax", 1) THEN {"priceRange"} ELSE {})
                \cup (IF Accepted("areaMin", "areaMax", 10) THEN {"areaRange"} ELSE {})
                \cup (IF \E i \in 1..Len(values) : Positive(i) THEN {"rooms"} ELSE {})
                \cup (IF Accepted("floorMin", "floorMax", 1) THEN {"floors"} ELSE {})
    IN IF \A k \in {"priceMin", "priceMax", "areaMin", "areaMax", "rooms",
                    "floorMin", "floorMax"} : ~Present(k)
       THEN ev.result = NullObject
       ELSE /\ ev.result # NullObject
            /\ DOMAIN ev.result = dims

\* C17, amended: a range is accepted iff both of its parameters hold one
\* non-empty value, both convert to numbers that are not NaN and min <= max;
\* rooms are the positive numbers among the values of rooms, ascending, and
\* are accepted when there is one; the result is null iff no dimension was
\* accepted, and otherwise holds exactly the accepted dimensions.
C17_ParseAcceptsNonEmptyAndValid ==
  ev.op = "parseFiltersFromUrl" =>
    LET query == ev.arg
        Value(k) == QueryValues(query, k)
        One(k) == Len(Value(k)) = 1 /\ Value(k)[1] # <<>>
        Accepted(minKey, maxKey, unit) ==
          /\ One(minKey) /\ One(maxKey)
          /\ Number(Value(minKey)[1], unit) # NaN
          /\ Number(Value(maxKey)[1], unit) # NaN
          /\ Number(Value(minKey)[1], unit) <= Number(Value(maxKey)[1], unit)
        Range(minKey, maxKey, unit) ==
          <<Number(Value(minKey)[1], unit), Number(Value(maxKey)[1], unit)>>
        values == Value("rooms")
        positive == {Number(values[i], 1) : i \in 1..Len(values)} \ {NaN}
        dims == (IF Accepted("priceMin", "priceMax", 1) THEN {"priceRange"} ELSE {})
                \cup (IF Accepted("areaMin", "areaMax", 10) THEN {"areaRange"} ELSE {})
                \cup (IF \E r \in positive : r > 0 THEN {"rooms"} ELSE {})
                \cup (IF Accepted("floorMin", "floorMax", 1) THEN {"floors"} ELSE {})
        result == ev.result
    IN IF dims = {} THEN result = NullObject
       ELSE /\ result # NullObject
            /\ DOMAIN result = dims
            /\ "priceRange" \in dims => result.priceRange = Range("priceMin", "priceMax", 1)
            /\ "areaRange" \in dims => result.areaRange = Range("areaMin", "areaMax", 10)
            /\ "floors" \in dims => result.floors = Range("floorMin", "floorMax", 1)
            /\ "rooms" \in dims =>
                 /\ \A i \in 1..(Len(result.rooms) - 1) :
                      result.rooms[i] <= result.rooms[i + 1]
                 /\ \A r \in 1..9 :
                      Cardinality({i \in 1..Len(result.rooms) : result.rooms[i] = r})
                        = Cardinality({i \in 1..Len(values) : Number(values[i], 1) = r})
                 /\ \A i \in 1..Len(result.rooms) : result.rooms[i] \in 1..9

\* rooms given by repeated keys were accepted next to a range that was not
C17_Witness ==
  /\ ev.op = "parseFiltersFromUrl"
  /\ Len(QueryValues(ev.arg, "rooms")) = 4
  /\ ev.result = [rooms |-> <<1, 3>>]

(***************************************************************************)
(* Properties of the validators (specification SpecPure).                  *)
(***************************************************************************)

\* C18: for every input, each bound (lower and upper) of the ranges returned
\* by sanitizeFilterParams lies between the rule minimum and the rule maximum,
\* and every returned room is in the available rooms.
C18_SanitizeWithinBounds ==
  ev.op = "sanitizeFilterParams" =>
    LET rules == DEFAULT_VALIDATION_RULES
        Within(range, rule) ==
          \A i \in {1, 2} : rule.min <= range[i] /\ range[i] <= rule.max
    IN /\ Within(ev.result.priceRange, rules.priceRange)
       /\ Within(ev.result.areaRange, rules.areaRange)
       /\ Within(ev.result.floors, rules.floors)
       /\ \A i \in 1..Len(ev.result.rooms) :
            Includes(rules.rooms.available, ev.result.rooms[i])

\* C19: validateFilterParams(filters, rules) reports, for each of price, area
\* and floors on its own, the lower-bound code iff min < rule.min, the
\* upper-bound code iff max > rule.max and the inversion code iff min > max,
\* and ROOMS_INVALID iff some room is not available; isValid iff no code is
\* reported, so a filter set within the bounds is valid, and an inverted
\* dimension reports its inversion code while the codes of the other
\* dimensions are what those dimensions alone give.
C19_ValidateReportsEachViolation ==
  ev.op = "validateFilterParams" =>
    LET f == ev.arg.filters
        rules == ev.arg.rules
        codes == {ev.result.errors[i] : i \in 1..Len(ev.result.errors)}
        RangeOk(field, minCode, maxCode, rangeCode) ==
          /\ (minCode \in codes) <=> (f[field][1] < rules[field].min)
          /\ (maxCode \in codes) <=> (f[field][2] > rules[field].max)
          /\ (rangeCode \in codes) <=> (f[field][1] > f[field][2])
        InBounds(field) ==
          /\ rules[field].min <= f[field][1]
          /\ f[field][1] <= f[field][2]
          /\ f[field][2] <= rules[field].max
        RoomsIn == \A i \in 1..Len(f.rooms) : Includes(rules.rooms.available, f.rooms[i])
    IN /\ RangeOk("priceRange", "PRICE_MIN_INVALID", "PRICE_MAX_INVALID",
                  "PRICE_RANGE_INVALID")
       /\ RangeOk("areaRange", "AREA_MIN_INVALID", "AREA_MAX_INVALID",
                  "AREA_RANGE_INVALID")
       /\ RangeOk("floors", "FLOOR_MIN_INVALID", "FLOOR_MAX_INVALID",
                  "FLOOR_RANGE_INVALID")
       /\ ("ROOMS_INVALID" \in codes) <=> ~RoomsIn
       /\ Cardinality(codes) = Len(ev.result.errors)
       /\ ev.result.isValid <=> (codes = {})
       /\ (InBounds("priceRange") /\ InBounds("areaRange") /\ InBounds("floors")
           /\ RoomsIn) => ev.result.isValid
       /\ (f.floors[1] > f.floors[2] /\ InBounds("priceRange")
           /\ InBounds("areaRange") /\ RoomsIn)
            => /\ "FLOOR_RANGE_INVALID" \in codes
               /\ codes \subseteq {"FLOOR_MIN_INVALID", "FLOOR_MAX_INVALID",
                                   "FLOOR_RANGE_INVALID"}

\* an inverted floor range alone was reported, with one code
C19_Witness ==
  /\ ev.op = "validateFilterParams"
  /\ ev.arg.filters.floors = <<20, 1>>
  /\ ev.arg.filters.rooms = <<4>>
  /\ ev.arg.rules = DEFAULT_VALIDATION_RULES
  /\ ev.result = [isValid |-> FALSE, errors |-> <<"FLOOR_RANGE_INVALID">>]

(***************************************************************************)
(* Properties of the listing page (specification SpecPage).                *)
(***************************************************************************)

\* C21: the response that brings the first metadata initializes the filter
\* store (persisted filters restored, else the defaults) and the URL filters,
\* if there are any, are applied after it and override it: each dimension the
\* URL gives holds the URL's value and every other dimension its default, not
\* the persisted value.  No later response and no failed one changes the
\* store's filters or metadata.
C21_UrlOverridesPersistedAtBootstrap ==
  [][ev'.op = "settle" =>
       IF ev'.ok /\ fMetadata = NullObject
       THEN LET m == metadata'
                url == parseFiltersFromUrl(routeQuery)
                saved == loadFilters(storedFilters)
            IN /\ fMetadata' = m
               /\ filters' =
                    IF url # NullObject
                    THEN [d \in {"priceRange", "areaRange", "rooms", "floors"} |->
                            IF d \in DOMAIN url THEN url[d] ELSE defaultFilters(m)[d]]
                    ELSE IF saved # NullObject THEN validateSavedFilters(saved, m)
                    ELSE defaultFilters(m)
       ELSE /\ filters' = filters
            /\ fMetadata' = fMetadata]_vars

\* persisted price filter and ?rooms=2: after bootstrap the store holds rooms 2
\* and the default price range
C21_Witness ==
  /\ ev.op = "settle" /\ ev.arg.initialized /\ ev.arg.fromUrl
  /\ storedFilters # NullObject
  /\ storedFilters.priceRange = <<5000000, 10000000>>
  /\ filters.rooms = <<2>>
  /\ filters.priceRange = fMetadata.priceRange

\* C22: the first filter-change notification after the pipeline is created
\* (the initialization write) results in no applyFilters() call and no fetch:
\* the timer callback that finds no snapshot recorded records the serialized
\* filters and skips firing.
C22_FirstChangeNeverFires ==
  (ev.op = "timer" /\ ev.arg.snapshot = NullObject)
    => /\ ~ev.started
       /\ ~ev.arg.fetches
       /\ view.previousFilters = [text |-> JsonFilters(filters)]

\* C23: every applyFilters() call of the debounce pipeline is made after a
\* full quiet window (no write of the filters during the last 300 ms), with
\* filters whose serialization differs from the snapshot of the previous
\* firing, and the request it issues carries the latest filters.
C23_ApplyOnlyAfterQuietWindow ==
  (ev.op = "timer" /\ ev.started)
    => /\ ev.arg.quiet = DebounceDelay
       /\ ev.arg.snapshot # [text |-> JsonFilters(filters)]
       /\ ev.arg.fetches
            => lastReset = IF hasActiveFilters(filters, fMetadata)
                           THEN filters ELSE Undefined

\* C24: at every moment at most one debounce timer is pending and at most
\* one load issued by applyFilters is in flight.
C24_OneTimerOneApply ==
  /\ Len(view.timers) <= 1
  /\ \A c \in BagToSet(inflight) :
       c.caller = "applyFilters"
         => /\ CopiesIn(c, inflight) = 1
            /\ \A d \in BagToSet(inflight) : d.caller = "applyFilters" => d = c

\* C29: when bootstrap leaves the filter store with active filters, a reset
\* load carrying them is issued: once the page is quiescent (mounted, no
\* request in flight, no timer pending, no route change to handle) and the
\* store's filters are active, the reset load issued last carried the store's
\* filters.
C29_QuiescentListMatchesStoreFilters ==
  (/\ view.mounted /\ Pending = 0 /\ view.timers = <<>> /\ ~view.routeChanged
   /\ fMetadata # NullObject /\ hasActiveFilters(filters, fMetadata))
    => lastReset = filters

====
